---------------------------- MODULE Spec2Model ----------------------------
(***************************************************************************)
(* The real-time core of the chat server: server/src/sockets/io.js         *)
(* (src/unnamed/part_009, lines 273-826).  One Socket.IO gateway keeps the *)
(* presence registry (onlineUsers), the in-memory call table (activeCalls) *)
(* and fans message events out to sessions.  Node runs every handler on    *)
(* one event loop: the code between two awaits is one atomic step, and     *)
(* the steps of different handlers interleave at the awaits.  Each action  *)
(* below is one such step.                                                 *)
(***************************************************************************)
EXTENDS Integers, Sequences, FiniteSets, TLC

(***************************************************************************)
(* The scenario: three users; u1 has two devices.                          *)
(***************************************************************************)
Users == {"u1", "u2", "u3"}
Sids == {"s1", "s2", "s3", "s4"}
\* socket.userId, set by the auth gate from the verified token
SessUser == [s \in Sids |-> IF s \in {"s1", "s2"} THEN "u1" ELSE IF s = "s3" THEN "u2" ELSE "u3"]

\* The chats of the store: one group, one direct chat.  "nochat" is an id
\* no chat has.
Chats == {"g", "d"}
ChatIds == Chats \cup {"nochat"}
IsGroup(c) == c = "g"
Participants(c) == IF c = "g" THEN {"u1", "u2", "u3"} ELSE {"u1", "u2"}
Admins(c) == IF c = "g" THEN {"u1"} ELSE {}

\* Bounds of the exploration
MaxMsgs == 2
MaxCalls == 1
MaxAcks == 2
MsgIds == 1..MaxMsgs
CallIds == 1..MaxCalls

NoUser == "-"
NoVal == "-"

\* The GET /chats requests the pages make: a request is its query string, the
\* list of its parameter names.  The clock counts milliseconds up to MaxClock
\* and the axios layer lets out at most MaxReqs requests.
Configs ==
  [url : {"/chats"}, query : {<<>>, <<"a", "b">>, <<"b", "a">>}]
    \cup [url : {"/users/me"}, query : {<<>>}]
\* isChatsRequest: a GET whose path ends with /api/chats
isChatsRequest(config) == config.url = "/chats"
\* makeKey: method, path and the query's pairs sorted, so that the order of the
\* parameters in the query string does not tell two keys apart
makeKey(config) == [path |-> config.url, pairs |-> {config.query[i] : i \in DOMAIN config.query}]
Keys == {makeKey(config) : config \in Configs}
THROTTLE_MS == 1500
MaxClock == 4500
MaxReqs == 3

VARIABLES
  sock,         \* sid -> "idle" | "connected" | "closed": the transport
  connPc,       \* sid -> position of the io.on('connection') handler
  discPc,       \* sid -> position of the socket.on('disconnect') handler
  onlineUsers,  \* the Map userId -> Set(socketId); DOMAIN = its keys
  chatRoom,     \* chat -> sockets in room chat:<id>
  callRoom,     \* call id -> sockets in room call:<id>
  onlyAdmins,   \* chat.settings.onlyAdminsCanMessage of the group
  blocked,      \* user -> User.blocked
  msgs,         \* the Message collection: durable id -> document
  sendTasks,    \* message:send / message:forward handlers past Message.create
  ackTasks,     \* message:delivered / message:read handlers in flight
  mutTasks,     \* message:react handlers in flight
  acks,         \* number of receipt/reaction events handled so far
  activeCalls,  \* the Map callId -> call; DOMAIN = its keys
  callSeq,      \* number of call ids makeId() has produced
  emitted,      \* the events the last step emitted to live sockets
  newCount,     \* sid -> msg id -> message:new events received
  endedCount,   \* sid -> call id -> call:ended events received
  statusSeen,   \* sid -> msg id -> statuses of the message:update events received
  messages,     \* the browser of s1, chat store: chat id -> list of messages
  outbox,       \* message:send events of s1's browser not yet at the server
  made,         \* the correlation ids makeClientId() has returned
  inFlight,     \* the browser's axios layer: keys of the Map inFlight
  lastSeen,     \* the browser's axios layer: the Map lastSeen, 0 where no entry
  clock,        \* Date.now() of the browser
  requests      \* the GET /chats requests the axios layer has let out

vars == <<sock, connPc, discPc, onlineUsers, chatRoom, callRoom, onlyAdmins, blocked,
          msgs, sendTasks, ackTasks, mutTasks, acks, activeCalls, callSeq,
          emitted, newCount, endedCount, statusSeen,
          messages, outbox, made, inFlight, lastSeen, clock, requests>>

connVars == <<sock, connPc, discPc, onlineUsers>>
roomVars == <<chatRoom, callRoom>>
chatVars == <<onlyAdmins, blocked>>
msgVars == <<msgs, sendTasks, ackTasks, mutTasks, acks>>
callVars == <<activeCalls, callSeq>>
logVars == <<newCount, endedCount, statusSeen>>
serverVars == <<connVars, roomVars, chatVars, msgVars, callVars, emitted, logVars>>
storeVars == <<messages, outbox, made>>
axiosVars == <<inFlight, lastSeen, clock, requests>>
browserVars == <<storeVars, axiosVars>>

(***************************************************************************)
(* Events.  An event is delivered only to a socket that is connected.      *)
(***************************************************************************)
Ev(t, e, i, w, v) == [to |-> t, ev |-> e, id |-> i, who |-> w, val |-> v, mem |-> {}]
Live == {s \in Sids : sock[s] = "connected"}
ToLive(targets, e, i, w, v) == {Ev(t, e, i, w, v) : t \in targets \cap Live}

\* A rejection no handler catches, and an exception thrown by a listener, are
\* raised by Node on the process object; no process.on(...) listener is
\* installed anywhere in the server.
Unhandled == Ev("process", "unhandledRejection", 0, NoUser, NoVal)
Uncaught == Ev("process", "uncaughtException", 0, NoUser, NoVal)

(***************************************************************************)
(* Presence registry                                                       *)
(***************************************************************************)
\* onlineUsers.get(u), or no sockets when the Map has no such key
SessionsOf(reg, u) == IF u \in DOMAIN reg THEN reg[u] ELSE {}

RegisterOverwrite(reg, u, s) == [x \in DOMAIN reg \cup {u} |-> IF x = u THEN {s} ELSE reg[x]]
Register(reg, u, s) ==
  [x \in DOMAIN reg \cup {u} |-> IF x = u THEN SessionsOf(reg, u) \cup {s} ELSE reg[x]]

UnregisterKeepEmpty(reg, u, s) ==
  IF u \in DOMAIN reg THEN [reg EXCEPT ![u] = @ \ {s}] ELSE reg
Unregister(reg, u, s) ==
  IF u \in DOMAIN reg
    THEN IF reg[u] \ {s} = {}
           THEN [x \in DOMAIN reg \ {u} |-> reg[x]]
           ELSE [reg EXCEPT ![u] = @ \ {s}]
    ELSE reg

\* emitToUser / the participant loops: every socket the registry holds for the users
SocketsOfUsers(us) == UNION {SessionsOf(onlineUsers, u) : u \in us}


(***************************************************************************)
(* Call table helpers                                                      *)
(***************************************************************************)
EmptyMap == [x \in {} |-> {}]
CallsOf(u) == {c \in DOMAIN activeCalls : u \in activeCalls[c].members}

\* the condition under which a departure ends the session (lines 773, 810)
EndsCallAnyLeaver(call, u) == TRUE
\* the condition with the host test left out: a call ends only when empty
EndsCallWhenEmpty(call, u) == call.members \ {u} = {}
EndsCall(call, u) == call.host = u \/ call.members \ {u} = {}

\* the disconnect sweep (lines 806-815): the calls it ends, the table it leaves,
\* the events it emits
SweepEnded(u) == {c \in CallsOf(u) : EndsCall(activeCalls[c], u)}
SweepTable(u) ==
  [c \in DOMAIN activeCalls \ SweepEnded(u) |->
     IF c \in CallsOf(u)
       THEN [activeCalls[c] EXCEPT !.members = @ \ {u}]
       ELSE activeCalls[c]]
SweepEvents(u) ==
  UNION {ToLive(callRoom[c], "call:left", c, u, NoVal) : c \in CallsOf(u)}
  \cup UNION {ToLive(callRoom[c], "call:ended", c, NoUser, "host_left") : c \in SweepEnded(u)}

\* the per-socket count of call:ended events, after the events evs were delivered
CountEnded(evs) ==
  [s \in Sids |-> [c \in CallIds |->
     endedCount[s][c] + IF \E e \in evs : e.to = s /\ e.ev = "call:ended" /\ e.id = c THEN 1 ELSE 0]]

(***************************************************************************)
(* Connection lifecycle (lines 431-441 and 796-816)                        *)
(***************************************************************************)
\* io.on('connection'), up to the await of line 440: the socket is registered
Connect(s) ==
  /\ sock[s] = "idle"
  /\ sock' = [sock EXCEPT ![s] = "connected"]
  /\ connPc' = [connPc EXCEPT ![s] = "await"]
  /\ onlineUsers' = Register(onlineUsers, SessUser[s], s)
  /\ emitted' = {}
  /\ UNCHANGED <<discPc, roomVars, chatVars, msgVars, callVars, logVars>>

\* the lastSeen update resolved: presence:update is broadcast and the handlers
\* (disconnect among them) are attached, also when the socket has closed meanwhile
ConnectResume(s) ==
  /\ connPc[s] = "await"
  /\ connPc' = [connPc EXCEPT ![s] = "attached"]
  /\ emitted' = ToLive(Sids, "presence:update", 0, SessUser[s], "online")
  /\ UNCHANGED <<sock, discPc, onlineUsers, roomVars, chatVars, msgVars, callVars, logVars>>

\* the lastSeen update rejected: the async handler ends there, nothing is attached
ConnectFail(s) ==
  /\ connPc[s] = "await"
  /\ connPc' = [connPc EXCEPT ![s] = "failed"]
  /\ emitted' = {Unhandled}
  /\ UNCHANGED <<sock, discPc, onlineUsers, roomVars, chatVars, msgVars, callVars, logVars>>

\* what a closing socket does to the rooms: Socket.IO takes it out of all of them
LeaveAllRooms(s) ==
  /\ chatRoom' = [c \in Chats |-> chatRoom[c] \ {s}]
  /\ callRoom' = [c \in CallIds |-> callRoom[c] \ {s}]

\* the transport closes before the disconnect handler was attached: no handler runs
CloseUnattached(s) ==
  /\ sock[s] = "connected"
  /\ connPc[s] # "attached"
  /\ sock' = [sock EXCEPT ![s] = "closed"]
  /\ LeaveAllRooms(s)
  /\ emitted' = {}
  /\ UNCHANGED <<connPc, discPc, onlineUsers, chatVars, msgVars, callVars, logVars>>

\* socket.on('disconnect'), up to the await of line 802: the socket is unregistered
Disconnect(s) ==
  /\ sock[s] = "connected"
  /\ connPc[s] = "attached"
  /\ sock' = [sock EXCEPT ![s] = "closed"]
  /\ LeaveAllRooms(s)
  /\ onlineUsers' = Unregister(onlineUsers, SessUser[s], s)
  /\ discPc' = [discPc EXCEPT ![s] = "await"]
  /\ emitted' = {}
  /\ UNCHANGED <<connPc, chatVars, msgVars, callVars, logVars>>

\* lines 803-815: presence:update with the registry's present answer, then the
\* sweep of the calls the user is a member of
DisconnectResume(s) ==
  /\ discPc[s] = "await"
  /\ discPc' = [discPc EXCEPT ![s] = "ended"]
  /\ LET u == SessUser[s]
         pres == ToLive(Sids, "presence:update", 0, u,
                        IF u \in DOMAIN onlineUsers THEN "online" ELSE "offline")
     IN /\ emitted' = pres \cup SweepEvents(u)
        /\ activeCalls' = SweepTable(u)
        /\ endedCount' = CountEnded(SweepEvents(u))
  /\ UNCHANGED <<sock, connPc, onlineUsers, roomVars, chatVars, msgVars, callSeq,
                 newCount, statusSeen>>

\* the lastSeen update of line 802 rejected: the handler ends there, with no
\* presence:update and no sweep
DisconnectFail(s) ==
  /\ discPc[s] = "await"
  /\ discPc' = [discPc EXCEPT ![s] = "ended"]
  /\ emitted' = {Unhandled}
  /\ UNCHANGED <<sock, connPc, onlineUsers, roomVars, chatVars, msgVars, callVars, logVars>>

(***************************************************************************)
(* Initial states                                                          *)
(***************************************************************************)
\* a browser that has just loaded the page
BrowserIdle ==
  /\ messages = [c \in Chats |-> <<>>]
  /\ outbox = {}
  /\ made = {}
  /\ inFlight = {}
  /\ lastSeen = [k \in Keys |-> 0]
  /\ clock = THROTTLE_MS
  /\ requests = {}

\* the store and the tables when the server has just started
InitEmpty ==
  /\ chatRoom = [c \in Chats |-> {}]
  /\ callRoom = [c \in CallIds |-> {}]
  /\ onlyAdmins = FALSE
  /\ blocked = [u \in Users |-> {}]
  /\ msgs = <<>>
  /\ sendTasks = {}
  /\ ackTasks = {}
  /\ mutTasks = {}
  /\ acks = 0
  /\ activeCalls = EmptyMap
  /\ callSeq = 0
  /\ emitted = {}
  /\ newCount = [s \in Sids |-> [m \in MsgIds |-> 0]]
  /\ endedCount = [s \in Sids |-> [c \in CallIds |-> 0]]
  /\ statusSeen = [s \in Sids |-> [m \in MsgIds |-> <<>>]]
  /\ BrowserIdle

\* nobody is connected
InitIdle ==
  /\ sock = [s \in Sids |-> "idle"]
  /\ connPc = [s \in Sids |-> "none"]
  /\ discPc = [s \in Sids |-> "none"]
  /\ onlineUsers = EmptyMap

\* every session has connected and its connection handler has run to its end
InitConnected ==
  /\ sock = [s \in Sids |-> "connected"]
  /\ connPc = [s \in Sids |-> "attached"]
  /\ discPc = [s \in Sids |-> "none"]
  /\ onlineUsers = [u \in Users |-> {s \in Sids : SessUser[s] = u}]

InitFresh == InitIdle /\ InitEmpty

(***************************************************************************)
(* Presence: connects and disconnects of all sessions, in any interleaving *)
(***************************************************************************)
NextPresence ==
  \E s \in Sids :
    \/ Connect(s) /\ UNCHANGED browserVars
    \/ ConnectResume(s) /\ UNCHANGED browserVars
    \/ ConnectFail(s) /\ UNCHANGED browserVars
    \/ CloseUnattached(s) /\ UNCHANGED browserVars
    \/ Disconnect(s) /\ UNCHANGED browserVars
    \/ DisconnectResume(s) /\ UNCHANGED browserVars
    \/ DisconnectFail(s) /\ UNCHANGED browserVars

SpecPresence == InitFresh /\ [][NextPresence]_vars

\* the sockets registered by a connection handler and not yet unregistered by a
\* disconnect handler
Registered(u) == {s \in Sids : SessUser[s] = u /\ connPc[s] # "none" /\ discPc[s] = "none"}
IsOnline(u) == u \in DOMAIN onlineUsers

\* C1: in every reachable state a user is online (has an entry in the registry)
\* exactly when the user has a registered session; the entry holds exactly the
\* registered sessions, so the registry never holds an empty set for a user and
\* never lacks an entry for a user with a registered session.
PresenceInvariant ==
  \A u \in Users :
    /\ IsOnline(u) <=> Registered(u) # {}
    /\ SessionsOf(onlineUsers, u) = Registered(u)
    /\ IsOnline(u) => onlineUsers[u] # {}

\* one device of u1 has connected and disconnected while the other is registered
PresenceWitness ==
  /\ discPc["s1"] = "ended"
  /\ connPc["s2"] = "attached"
  /\ discPc["s2"] = "none"
  /\ IsOnline("u1")
  /\ discPc["s3"] = "ended"
  /\ ~IsOnline("u2")


(***************************************************************************)
(* Call handlers (lines 720-791).  A handler runs on a socket whose        *)
(* connection handler has attached it and that is still connected.         *)
(***************************************************************************)
Attached(s) == sock[s] = "connected" /\ connPc[s] = "attached"

\* call:start: participant check, new table entry, call:created, call:ring
CallStart(s, chat) ==
  /\ Attached(s)
  /\ LET u == SessUser[s]
         id == callSeq + 1
     IN IF chat \notin Chats \/ u \notin Participants(chat)
          THEN /\ emitted' = ToLive({s}, "call:error", 0, NoUser, NoVal)
               /\ UNCHANGED <<callVars, callRoom>>
          ELSE /\ callSeq < MaxCalls
               /\ callSeq' = id
               /\ activeCalls' = [c \in DOMAIN activeCalls \cup {id} |->
                                    IF c = id THEN [chatId |-> chat, host |-> u, members |-> {u}]
                                              ELSE activeCalls[c]]
               /\ callRoom' = [callRoom EXCEPT ![id] = @ \cup {s}]
               /\ emitted' = {[Ev(s, "call:created", id, u, NoVal) EXCEPT !.mem = {u}]}
                             \cup ToLive(SocketsOfUsers(Participants(chat) \ {u}),
                                         "call:ring", id, u, NoVal)
  /\ UNCHANGED <<connVars, chatRoom, chatVars, msgVars, logVars>>

\* call:accept with io.to in the place of socket.to at line 753: call:joined
\* goes to the accepting socket too
CallAcceptEcho(s, c) ==
  /\ Attached(s)
  /\ LET u == SessUser[s]
     IN IF c \notin DOMAIN activeCalls
          THEN /\ emitted' = ToLive({s}, "call:error", 0, NoUser, NoVal)
               /\ UNCHANGED <<activeCalls, callRoom>>
          ELSE /\ activeCalls' = [activeCalls EXCEPT ![c].members = @ \cup {u}]
               /\ callRoom' = [callRoom EXCEPT ![c] = @ \cup {s}]
               /\ emitted' =
                    {[Ev(s, "call:participants", c, activeCalls[c].host, NoVal)
                        EXCEPT !.mem = activeCalls[c].members \cup {u}]}
                    \cup ToLive(callRoom[c] \cup {s}, "call:joined", c, u, NoVal)
  /\ UNCHANGED <<connVars, chatRoom, chatVars, msgVars, callSeq, logVars>>

\* call:accept
CallAccept(s, c) ==
  /\ Attached(s)
  /\ LET u == SessUser[s]
     IN IF c \notin DOMAIN activeCalls
          THEN /\ emitted' = ToLive({s}, "call:error", 0, NoUser, NoVal)
               /\ UNCHANGED <<activeCalls, callRoom>>
          ELSE /\ activeCalls' = [activeCalls EXCEPT ![c].members = @ \cup {u}]
               /\ callRoom' = [callRoom EXCEPT ![c] = @ \cup {s}]
               /\ emitted' =
                    {[Ev(s, "call:participants", c, activeCalls[c].host, NoVal)
                        EXCEPT !.mem = activeCalls[c].members \cup {u}]}
                    \cup ToLive((callRoom[c] \cup {s}) \ {s}, "call:joined", c, u, NoVal)
  /\ UNCHANGED <<connVars, chatRoom, chatVars, msgVars, callSeq, logVars>>

\* call:reject: the host's sockets are told, the session is not touched
CallReject(s, c) ==
  /\ Attached(s)
  /\ emitted' = IF c \in DOMAIN activeCalls
                  THEN ToLive(SocketsOfUsers({activeCalls[c].host}), "call:rejected",
                              c, SessUser[s], NoVal)
                  ELSE {}
  /\ UNCHANGED <<connVars, roomVars, chatVars, msgVars, callVars, logVars>>

\* call:leave on table calls and rooms rooms (lines 765-777): the table and the
\* rooms it leaves, the events it emits
LeaveResult(calls, rooms, s, c) ==
  LET u == SessUser[s]
      room == rooms[c] \ {s}
  IN IF c \notin DOMAIN calls
       THEN [calls |-> calls, rooms |-> rooms, evs |-> {}]
       ELSE [calls |-> IF EndsCall(calls[c], u)
                         THEN [x \in DOMAIN calls \ {c} |-> calls[x]]
                         ELSE [calls EXCEPT ![c].members = @ \ {u}],
             rooms |-> [rooms EXCEPT ![c] = room],
             evs |-> ToLive(room, "call:left", c, u, NoVal)
                     \cup IF EndsCall(calls[c], u)
                            THEN ToLive(room, "call:ended", c, NoUser, "host_left")
                            ELSE {}]

CallLeave(s, c) ==
  /\ Attached(s)
  /\ LET r == LeaveResult(activeCalls, callRoom, s, c)
     IN /\ activeCalls' = r.calls
        /\ callRoom' = r.rooms
        /\ emitted' = r.evs
        /\ endedCount' = CountEnded(r.evs)
  /\ UNCHANGED <<connVars, chatRoom, chatVars, msgVars, callSeq, newCount, statusSeen>>

\* call:end with the host check of line 782 left out
CallEndAnyone(s, c) ==
  /\ Attached(s)
  /\ IF c \in DOMAIN activeCalls
       THEN LET evs == ToLive(callRoom[c], "call:ended", c, NoUser, "ended_by_host")
            IN /\ emitted' = evs
               /\ endedCount' = CountEnded(evs)
               /\ activeCalls' = [x \in DOMAIN activeCalls \ {c} |-> activeCalls[x]]
       ELSE /\ emitted' = {}
            /\ UNCHANGED <<activeCalls, endedCount>>
  /\ UNCHANGED <<connVars, roomVars, chatVars, msgVars, callSeq, newCount, statusSeen>>

\* call:end: only the host ends the session
CallEnd(s, c) ==
  /\ Attached(s)
  /\ IF c \in DOMAIN activeCalls /\ activeCalls[c].host = SessUser[s]
       THEN LET evs == ToLive(callRoom[c], "call:ended", c, NoUser, "ended_by_host")
            IN /\ emitted' = evs
               /\ endedCount' = CountEnded(evs)
               /\ activeCalls' = [x \in DOMAIN activeCalls \ {c} |-> activeCalls[x]]
       ELSE /\ emitted' = {}
            /\ UNCHANGED <<activeCalls, endedCount>>
  /\ UNCHANGED <<connVars, roomVars, chatVars, msgVars, callSeq, newCount, statusSeen>>

\* call:signal: relayed to every socket of the addressed user
CallSignal(s, c, to) ==
  /\ Attached(s)
  /\ emitted' = IF c \in DOMAIN activeCalls
                  THEN ToLive(SocketsOfUsers({to}), "call:signal", c, SessUser[s], NoVal)
                  ELSE {}
  /\ UNCHANGED <<connVars, roomVars, chatVars, msgVars, callVars, logVars>>

(***************************************************************************)
(* Calls: every session is connected; calls are started, joined, left and  *)
(* ended while sessions disconnect.                                        *)
(***************************************************************************)
\* every session but one has connected and its connection handler has run to its
\* end; the other one never connects
InitConnectedExcept(x) ==
  /\ sock = [s \in Sids |-> IF s = x THEN "idle" ELSE "connected"]
  /\ connPc = [s \in Sids |-> IF s = x THEN "none" ELSE "attached"]
  /\ discPc = [s \in Sids |-> "none"]
  /\ onlineUsers = [u \in {SessUser[s] : s \in Sids \ {x}} |->
                      {s \in Sids \ {x} : SessUser[s] = u}]

\* either one device for each of three users, or the two devices of u1 and u2
InitCall == (\E x \in {"s2", "s4"} : InitConnectedExcept(x)) /\ InitEmpty

NextCall ==
  \/ \E s \in Sids, chat \in ChatIds : CallStart(s, chat) /\ UNCHANGED browserVars
  \/ \E s \in Sids, c \in CallIds : CallAccept(s, c) /\ UNCHANGED browserVars
  \/ \E s \in Sids, c \in CallIds : CallLeave(s, c) /\ UNCHANGED browserVars
  \/ \E s \in Sids, c \in CallIds : CallEnd(s, c) /\ UNCHANGED browserVars
  \/ \E s \in Sids : Disconnect(s) /\ UNCHANGED browserVars
  \/ \E s \in Sids : DisconnectResume(s) /\ UNCHANGED browserVars
  \/ \E s \in Sids : DisconnectFail(s) /\ UNCHANGED browserVars

SpecCall == InitCall /\ [][NextCall]_vars


(***************************************************************************)
(* Rooms (lines 444-445)                                                   *)
(***************************************************************************)
ChatJoin(s, c) ==
  /\ Attached(s)
  /\ chatRoom' = [chatRoom EXCEPT ![c] = @ \cup {s}]
  /\ emitted' = {}
  /\ UNCHANGED <<connVars, callRoom, chatVars, msgVars, callVars, logVars>>

ChatLeave(s, c) ==
  /\ Attached(s)
  /\ chatRoom' = [chatRoom EXCEPT ![c] = @ \ {s}]
  /\ emitted' = {}
  /\ UNCHANGED <<connVars, callRoom, chatVars, msgVars, callVars, logVars>>

(***************************************************************************)
(* Message delivery pipeline (lines 484-551, 678-717)                      *)
(***************************************************************************)
\* Message.create({chat, sender, text, type, status: 'sent', ...}) with the
\* schema's defaults
\* a text: what it says and how many characters it has
Text(tag, len) == [tag |-> tag, len |-> len]
NoText == Text("", 0)

NewMessage(chat, sender) ==
  [chat |-> chat, sender |-> sender, type |-> "text", text |-> Text("a", 2),
   mediaUrl |-> "", mediaName |-> "", status |-> "sent",
   forwardOf |-> 0, deliveredTo |-> <<>>, readBy |-> <<>>, reactions |-> <<>>,
   editedAt |-> 0, deletedForAllAt |-> 0, deletedFor |-> <<>>, starredBy |-> {},
   pinnedAt |-> 0, pinnedBy |-> NoUser, v |-> 0]

\* the guards of lines 499-517; the result is the error thrown, or "ok"
SendGuardNoAdminGate(u, chat) ==
  IF chat \notin Chats THEN "Chat not found"
  ELSE IF ~IsGroup(chat) /\ (Participants(chat) \ {u}) \cap blocked[u] # {}
    THEN "You blocked this contact"
  ELSE IF ~IsGroup(chat) /\ \E p \in Participants(chat) \ {u} : u \in blocked[p]
    THEN "Recipient blocked you"
  ELSE "ok"
SendGuardOneWayBlock(u, chat) ==
  IF chat \notin Chats THEN "Chat not found"
  ELSE IF IsGroup(chat) /\ onlyAdmins /\ u \notin Admins(chat)
    THEN "Only group admins can send messages"
  ELSE IF ~IsGroup(chat) /\ (Participants(chat) \ {u}) \cap blocked[u] # {}
    THEN "You blocked this contact"
  ELSE "ok"
SendGuard(u, chat) ==
  IF chat \notin Chats THEN "Chat not found"
  ELSE IF IsGroup(chat) /\ onlyAdmins /\ u \notin Admins(chat)
    THEN "Only group admins can send messages"
  ELSE IF ~IsGroup(chat) /\ (Participants(chat) \ {u}) \cap blocked[u] # {}
    THEN "You blocked this contact"
  ELSE IF ~IsGroup(chat) /\ \E p \in Participants(chat) \ {u} : u \in blocked[p]
    THEN "Recipient blocked you"
  ELSE "ok"

\* the target set of lines 537-545: the room, the registered sockets of the
\* participants, the sending socket
SendTargetsRoomOnly(s, chat) == chatRoom[chat] \cup {s}
SendTargets(s, chat) == chatRoom[chat] \cup SocketsOfUsers(Participants(chat)) \cup {s}

\* the per-socket count of message:new events, after evs were delivered
CountNew(evs) ==
  [t \in Sids |-> [m \in MsgIds |->
     newCount[t][m] + Cardinality({e \in evs : e.to = t /\ e.ev = "message:new" /\ e.id = m})]]

\* message:send up to the end of Message.create (lines 495-530): the guards,
\* then the message is in the store; a guard's error goes to the sender's socket
SendCreate(s, chat, cid) ==
  /\ Attached(s)
  /\ LET u == SessUser[s]
         g == SendGuard(u, chat)
         id == Len(msgs) + 1
     IN IF g # "ok"
          THEN /\ emitted' = ToLive({s}, "error", 0, NoUser, g)
               /\ UNCHANGED <<msgs, sendTasks>>
          ELSE /\ Len(msgs) < MaxMsgs
               /\ msgs' = Append(msgs, NewMessage(chat, u))
               /\ sendTasks' = sendTasks \cup
                    {[op |-> "send", sid |-> s, id |-> id, cid |-> cid, targets |-> {}]}
               /\ emitted' = {}
  /\ UNCHANGED <<connVars, roomVars, chatVars, ackTasks, mutTasks, acks, callVars, logVars>>

\* lines 531-547: the chat is touched, the message hydrated, and message:new
\* goes once to every socket of the target set, with the clientId given
SendBroadcast(t) ==
  /\ t \in sendTasks /\ t.op = "send"
  /\ LET evs == ToLive(SendTargets(t.sid, msgs[t.id].chat), "message:new", t.id,
                       msgs[t.id].sender, t.cid)
     IN /\ emitted' = evs
        /\ newCount' = CountNew(evs)
  /\ sendTasks' = sendTasks \ {t}
  /\ UNCHANGED <<connVars, roomVars, chatVars, msgs, ackTasks, mutTasks, acks, callVars,
                 endedCount, statusSeen>>

\* Chat.findById or Message.create rejects (lines 496, 519), the latter also on
\* a payload the schema refuses: the catch of line 548 reports to the sender's
\* socket and nothing is stored
SendCreateFail(s) ==
  /\ Attached(s)
  /\ emitted' = ToLive({s}, "error", 0, NoUser, "Failed to send")
  /\ UNCHANGED <<connVars, roomVars, chatVars, msgVars, callVars, logVars>>

\* the catch of line 548 left out: the handler ends without a word
SendAbortSilent(t) ==
  /\ t \in sendTasks /\ t.op \in {"send", "forward"}
  /\ emitted' = {}
  /\ sendTasks' = sendTasks \ {t}
  /\ UNCHANGED <<connVars, roomVars, chatVars, msgs, ackTasks, mutTasks, acks, callVars, logVars>>

\* Chat.findByIdAndUpdate or the hydration rejects (lines 531-533): the catch of
\* line 548 reports to the sender's socket; the message stays in the store
SendAbort(t) ==
  /\ t \in sendTasks /\ t.op \in {"send", "forward"}
  /\ emitted' = ToLive({t.sid}, "error", 0, NoUser, "Failed to send")
  /\ sendTasks' = sendTasks \ {t}
  /\ UNCHANGED <<connVars, roomVars, chatVars, msgs, ackTasks, mutTasks, acks, callVars, logVars>>

\* message:forward up to the end of Message.create (lines 679-700)
ForwardCreate(s, m, chat) ==
  /\ Attached(s)
  /\ LET u == SessUser[s]
         id == Len(msgs) + 1
         err == IF m \notin DOMAIN msgs THEN "Source message not found"
                ELSE IF chat \notin Chats THEN "Target chat not found"
                ELSE IF u \notin Participants(chat) THEN "Not a participant of target chat"
                ELSE "ok"
     IN IF err # "ok"
          THEN /\ emitted' = ToLive({s}, "error", 0, NoUser, err)
               /\ UNCHANGED <<msgs, sendTasks>>
          ELSE /\ Len(msgs) < MaxMsgs
               /\ msgs' = Append(msgs, [NewMessage(chat, u) EXCEPT !.type = msgs[m].type,
                                                                    !.text = msgs[m].text,
                                                                    !.forwardOf = m])
               /\ sendTasks' = sendTasks \cup
                    {[op |-> "forward", sid |-> s, id |-> id, cid |-> NoVal, targets |-> {}]}
               /\ emitted' = {}
  /\ UNCHANGED <<connVars, roomVars, chatVars, ackTasks, mutTasks, acks, callVars, logVars>>

\* lines 702-711: message:new to the forwarding socket, then the target set is
\* collected from the room and the participants' registered sockets
ForwardSelf(t) ==
  /\ t \in sendTasks /\ t.op = "forward"
  /\ LET evs == ToLive({t.sid}, "message:new", t.id, msgs[t.id].sender, NoVal)
         chat == msgs[t.id].chat
     IN /\ emitted' = evs
        /\ newCount' = CountNew(evs)
        /\ sendTasks' = (sendTasks \ {t}) \cup
             {[t EXCEPT !.op = "forwardOthers",
                        !.targets = chatRoom[chat] \cup SocketsOfUsers(Participants(chat))]}
  /\ UNCHANGED <<connVars, roomVars, chatVars, msgs, ackTasks, mutTasks, acks, callVars,
                 endedCount, statusSeen>>

\* lines 712-713: after the second hydration, message:new to the collected sockets
ForwardOthers(t) ==
  /\ t \in sendTasks /\ t.op = "forwardOthers"
  /\ LET evs == ToLive(t.targets, "message:new", t.id, msgs[t.id].sender, NoVal)
     IN /\ emitted' = evs
        /\ newCount' = CountNew(evs)
  /\ sendTasks' = sendTasks \ {t}
  /\ UNCHANGED <<connVars, roomVars, chatVars, msgs, ackTasks, mutTasks, acks, callVars,
                 endedCount, statusSeen>>

\* the second hydration of line 712 rejects: error to the forwarding socket
ForwardAbort(t) ==
  /\ t \in sendTasks /\ t.op = "forwardOthers"
  /\ emitted' = ToLive({t.sid}, "error", 0, NoUser, "Forward failed")
  /\ sendTasks' = sendTasks \ {t}
  /\ UNCHANGED <<connVars, roomVars, chatVars, msgs, ackTasks, mutTasks, acks, callVars, logVars>>

(***************************************************************************)
(* Sending: every session is connected; the group's admin-only flag and    *)
(* the block lists of the two users of the direct chat are any of their    *)
(* values; s1 has joined the group's room and s4, whose user is not in the *)
(* direct chat, the direct chat's room; the store holds one message sent   *)
(* and broadcast earlier.  Sockets send and forward.                       *)
(***************************************************************************)
\* the correlation ids clients put in message:send
ClientIds == {"c1"}

BlockLists ==
  {[u \in Users |-> {}],
   [u \in Users |-> IF u = "u1" THEN {"u2"} ELSE {}],
   [u \in Users |-> IF u = "u2" THEN {"u1"} ELSE {}]}

InitSend ==
  /\ InitConnected
  /\ chatRoom = [c \in Chats |-> IF c = "g" THEN {"s1"} ELSE {"s4"}]
  /\ callRoom = [c \in CallIds |-> {}]
  /\ onlyAdmins \in BOOLEAN
  /\ blocked \in BlockLists
  /\ msgs = <<NewMessage("g", "u2")>>
  /\ sendTasks = {}
  /\ ackTasks = {}
  /\ mutTasks = {}
  /\ acks = 0
  /\ activeCalls = EmptyMap
  /\ callSeq = 0
  /\ emitted = {}
  /\ newCount = [s \in Sids |-> [m \in MsgIds |-> 0]]
  /\ endedCount = [s \in Sids |-> [c \in CallIds |-> 0]]
  /\ statusSeen = [s \in Sids |-> [m \in MsgIds |-> <<>>]]
  /\ BrowserIdle

NextSend ==
  \/ \E s \in Sids, chat \in ChatIds, cid \in ClientIds : SendCreate(s, chat, cid) /\ UNCHANGED browserVars
  \/ \E t \in sendTasks : SendBroadcast(t) /\ UNCHANGED browserVars
  \/ \E t \in sendTasks : SendAbort(t) /\ UNCHANGED browserVars
  \/ \E s \in Sids, m \in MsgIds, chat \in ChatIds : ForwardCreate(s, m, chat) /\ UNCHANGED browserVars
  \/ \E t \in sendTasks : ForwardSelf(t) /\ UNCHANGED browserVars
  \/ \E t \in sendTasks : ForwardOthers(t) /\ UNCHANGED browserVars
  \/ \E t \in sendTasks : ForwardAbort(t) /\ UNCHANGED browserVars

SpecSend == InitSend /\ [][NextSend]_vars

(***************************************************************************)
(* Receipts (lines 554-575).  Message.findById gives the handler its own   *)
(* copy of the document; the handler changes the copy and save() writes    *)
(* the changed paths to the store: $set of status when the copy's status   *)
(* changed, $push of the user when the handler pushed it.  The update      *)
(* event carries the copy.                                                 *)
(***************************************************************************)
Rank(st) == IF st = "sent" THEN 0 ELSE IF st = "delivered" THEN 1 ELSE 2
InSeq(x, q) == \E k \in 1..Len(q) : q[k] = x

\* the status the handler gives its copy (lines 558, 570)
AckStatus(op, st) ==
  IF op = "read" THEN "read" ELSE IF st # "read" THEN "delivered" ELSE st

\* the per-socket statuses seen, after message:update events evs were delivered
SeenAfter(evs) ==
  [x \in Sids |-> [m \in MsgIds |->
     IF \E e \in evs : e.to = x /\ e.ev = "message:update" /\ e.id = m
       THEN Append(statusSeen[x][m],
                   (CHOOSE e \in evs : e.to = x /\ e.ev = "message:update" /\ e.id = m).val)
       ELSE statusSeen[x][m]]]

\* message:delivered / message:read up to the save (lines 555-559, 567-571):
\* the document is read and the copy changed; an unknown id ends the handler
AckStart(s, op, m) ==
  /\ Attached(s)
  /\ acks < MaxAcks
  /\ acks' = acks + 1
  /\ emitted' = {}
  /\ ackTasks' =
       IF m \notin DOMAIN msgs
         THEN ackTasks
         ELSE LET u == SessUser[s]
                  doc == msgs[m]
                  list == IF op = "read" THEN doc.readBy ELSE doc.deliveredTo
              IN ackTasks \cup
                   {[op |-> op, sid |-> s, id |-> m, n |-> acks, pc |-> "save",
                     status |-> AckStatus(op, doc.status),
                     setStatus |-> AckStatus(op, doc.status) # doc.status,
                     push |-> ~InSeq(u, list)]}
  /\ UNCHANGED <<connVars, roomVars, chatVars, msgs, sendTasks, mutTasks, callVars, logVars>>

\* msg.save() (lines 559, 571): the changed paths are written
AckSave(t) ==
  /\ t \in ackTasks /\ t.pc = "save"
  /\ LET u == SessUser[t.sid]
         d0 == msgs[t.id]
         d1 == IF t.setStatus THEN [d0 EXCEPT !.status = t.status] ELSE d0
         d2 == IF ~t.push THEN d1
               ELSE IF t.op = "read"
                 THEN [d1 EXCEPT !.readBy = Append(@, u), !.v = @ + 1]
                 ELSE [d1 EXCEPT !.deliveredTo = Append(@, u), !.v = @ + 1]
     IN msgs' = [msgs EXCEPT ![t.id] = d2]
  /\ ackTasks' = (ackTasks \ {t}) \cup {[t EXCEPT !.pc = "emit"]}
  /\ emitted' = {}
  /\ UNCHANGED <<connVars, roomVars, chatVars, sendTasks, mutTasks, acks, callVars, logVars>>

\* lines 561-562, 573-574: the copy is hydrated and sent to the chat's room
AckEmit(t) ==
  /\ t \in ackTasks /\ t.pc = "emit"
  /\ LET evs == ToLive(chatRoom[msgs[t.id].chat], "message:update", t.id, NoUser, t.status)
     IN /\ emitted' = evs
        /\ statusSeen' = SeenAfter(evs)
  /\ ackTasks' = ackTasks \ {t}
  /\ UNCHANGED <<connVars, roomVars, chatVars, msgs, sendTasks, mutTasks, acks, callVars,
                 newCount, endedCount>>

\* the save or the hydration rejects: the handler has no catch and ends there
AckFail(t) ==
  /\ t \in ackTasks
  /\ ackTasks' = ackTasks \ {t}
  /\ emitted' = {Unhandled}
  /\ UNCHANGED <<connVars, roomVars, chatVars, msgs, sendTasks, mutTasks, acks, callVars, logVars>>

(***************************************************************************)
(* Receipts: every session is connected, s1 and s3 watch the group's room, *)
(* the store holds one message of the group with status sent; receipts for *)
(* it (and for an id the store does not hold) arrive from any socket.      *)
(***************************************************************************)
InitWatched ==
  /\ InitConnected
  /\ chatRoom = [c \in Chats |-> IF c = "g" THEN {"s1", "s3"} ELSE {}]
  /\ callRoom = [c \in CallIds |-> {}]
  /\ onlyAdmins = FALSE
  /\ blocked = [u \in Users |-> {}]
  /\ sendTasks = {}
  /\ ackTasks = {}
  /\ mutTasks = {}
  /\ acks = 0
  /\ activeCalls = EmptyMap
  /\ callSeq = 0
  /\ emitted = {}
  /\ newCount = [s \in Sids |-> [m \in MsgIds |-> 0]]
  /\ endedCount = [s \in Sids |-> [c \in CallIds |-> 0]]
  /\ statusSeen = [s \in Sids |-> [m \in MsgIds |-> <<>>]]
  /\ BrowserIdle

InitAck == InitWatched /\ msgs = <<NewMessage("g", "u1")>>

NextAck ==
  \/ \E s \in Sids, op \in {"delivered", "read"}, m \in MsgIds : AckStart(s, op, m) /\ UNCHANGED browserVars
  \/ \E t \in ackTasks : AckSave(t) /\ UNCHANGED browserVars
  \/ \E t \in ackTasks : AckEmit(t) /\ UNCHANGED browserVars
  \/ \E t \in ackTasks : AckFail(t) /\ UNCHANGED browserVars

SpecAck == InitAck /\ [][NextAck]_vars

(***************************************************************************)
(* message:react (lines 584-597).  The handler toggles the pair (user,      *)
(* emoji) on its copy of the document.  save() writes a pushed entry as a   *)
(* $push of that entry onto the stored array, whatever the array holds by   *)
(* then, and a spliced array as a $set of the whole copy, which the store   *)
(* accepts only while the document's version is the one the copy was read   *)
(* at (otherwise save() throws a VersionError).                             *)
(***************************************************************************)
Emojis == {"a", "b"}
NoEmoji == ""

Reaction(u, e) == [emoji |-> e, by |-> u]

\* line 589: findIndex, 0 when no entry matches
FindReaction(list, u, e) ==
  IF \E k \in 1..Len(list) : list[k] = Reaction(u, e)
    THEN CHOOSE k \in 1..Len(list) :
           /\ list[k] = Reaction(u, e)
           /\ \A j \in 1..(k - 1) : list[j] # Reaction(u, e)
    ELSE 0

RemoveAt(list, k) == [j \in 1..(Len(list) - 1) |-> IF j < k THEN list[j] ELSE list[j + 1]]

\* lines 589-591 on an array
ToggleReaction(list, u, e) ==
  IF FindReaction(list, u, e) > 0
    THEN RemoveAt(list, FindReaction(list, u, e))
    ELSE Append(list, Reaction(u, e))

\* lines 585-591: an empty emoji or an unknown id ends the handler
ReactStart(s, m, e) ==
  /\ Attached(s)
  /\ acks < MaxAcks
  /\ acks' = acks + 1
  /\ emitted' = {}
  /\ mutTasks' =
       IF e = NoEmoji \/ m \notin DOMAIN msgs
         THEN mutTasks
         ELSE LET u == SessUser[s]
                  doc == msgs[m]
              IN mutTasks \cup
                   {[op |-> "react", sid |-> s, id |-> m, n |-> acks, pc |-> "save",
                     emoji |-> e,
                     splice |-> FindReaction(doc.reactions, u, e) > 0,
                     reactions |-> ToggleReaction(doc.reactions, u, e),
                     v |-> doc.v,
                     status |-> doc.status]}
  /\ UNCHANGED <<connVars, roomVars, chatVars, msgs, sendTasks, ackTasks, callVars, logVars>>

\* line 592: msg.save(); a VersionError goes to the catch of line 594
ReactSave(t) ==
  /\ t \in mutTasks /\ t.op = "react" /\ t.pc = "save"
  /\ LET d0 == msgs[t.id]
         stale == t.splice /\ d0.v # t.v
         d1 == IF t.splice
                 THEN [d0 EXCEPT !.reactions = t.reactions, !.v = @ + 1]
                 ELSE [d0 EXCEPT !.reactions = Append(@, Reaction(SessUser[t.sid], t.emoji)),
                                 !.v = @ + 1]
     IN IF stale
          THEN /\ msgs' = msgs
               /\ mutTasks' = mutTasks \ {t}
               /\ emitted' = ToLive({t.sid}, "error", t.id, NoUser, "message:react")
          ELSE /\ msgs' = [msgs EXCEPT ![t.id] = d1]
               /\ mutTasks' = (mutTasks \ {t}) \cup {[t EXCEPT !.pc = "emit"]}
               /\ emitted' = {}
  /\ UNCHANGED <<connVars, roomVars, chatVars, sendTasks, ackTasks, acks, callVars, logVars>>

\* the sockets emitMessageUpdate sends to (lines 380-393)
UpdateTargets(chat) == chatRoom[chat] \cup SocketsOfUsers(Participants(chat))

\* line 593: broadcastMsgUpdate sends the copy to the room and the participants
ReactEmit(t) ==
  /\ t \in mutTasks /\ t.op = "react" /\ t.pc = "emit"
  /\ LET evs == ToLive(UpdateTargets(msgs[t.id].chat), "message:update", t.id, NoUser, t.status)
     IN /\ emitted' = evs
        /\ statusSeen' = SeenAfter(evs)
  /\ mutTasks' = mutTasks \ {t}
  /\ UNCHANGED <<connVars, roomVars, chatVars, msgs, sendTasks, ackTasks, acks, callVars,
                 newCount, endedCount>>

\* lines 594-596: the save or the broadcast rejects, the sender gets an error
ReactFail(t) ==
  /\ t \in mutTasks /\ t.op = "react"
  /\ mutTasks' = mutTasks \ {t}
  /\ emitted' = ToLive({t.sid}, "error", t.id, NoUser, "message:react")
  /\ UNCHANGED <<connVars, roomVars, chatVars, msgs, sendTasks, ackTasks, acks, callVars, logVars>>

NextReact ==
  \/ \E s \in Sids, m \in MsgIds, e \in Emojis \cup {NoEmoji} : ReactStart(s, m, e) /\ UNCHANGED browserVars
  \/ \E t \in mutTasks : ReactSave(t) /\ UNCHANGED browserVars
  \/ \E t \in mutTasks : ReactEmit(t) /\ UNCHANGED browserVars
  \/ \E t \in mutTasks : ReactFail(t) /\ UNCHANGED browserVars

\* the stored message already carries one reaction, saved by one earlier push
InitReact ==
  /\ InitWatched
  /\ msgs = <<[NewMessage("g", "u1") EXCEPT !.reactions = <<Reaction("u2", "b")>>, !.v = 1]>>

SpecReact == InitReact /\ [][NextReact]_vars

\* C2: the stored status of a message never decreases under sent < delivered <
\* read, and the statuses of the message:update events a socket receives for a
\* message never decrease either, in every interleaving of the receipt handlers.
StatusMonotone ==
  /\ [][\A m \in DOMAIN msgs : Rank(msgs'[m].status) >= Rank(msgs[m].status)]_vars
  /\ [](\A x \in Sids : \A m \in MsgIds :
          \A k \in 1..(Len(statusSeen[x][m]) - 1) :
            Rank(statusSeen[x][m][k]) <= Rank(statusSeen[x][m][k + 1]))

EndedTo(evs, c) == {e.to : e \in {x \in evs : x.ev = "call:ended" /\ x.id = c}}

\* C5: when the host issues call:leave, or the disconnect handler of a connection
\* of the host has ended, the call is no longer in the active-call table and
\* every live socket a remaining member has in the call has received exactly one
\* call:ended for it.
HostExitEndsCall ==
  [][\A s \in Sids, c \in CallIds :
       (/\ c \in DOMAIN activeCalls
        /\ activeCalls[c].host = SessUser[s]
        /\ activeCalls[c].members # {SessUser[s]}
        /\ CallLeave(s, c) \/ DisconnectResume(s) \/ DisconnectFail(s))
       => /\ c \notin DOMAIN activeCalls'
          /\ \A t \in (callRoom[c] \cap Live) \ {s} :
               SessUser[t] \in activeCalls[c].members \ {SessUser[s]}
                 => endedCount'[t][c] = 1]_vars

\* C6: from any state with three members in a call, two call:leave events of
\* two of them, handled one right after the other in either order, leave the
\* host alone in the session with no call:ended emitted when neither leaver is
\* the host; when a leaver is the host, the host's leave ends the session once,
\* the remaining members' live sockets in the call each get exactly one
\* call:ended, a leave handled after it finds no session, changes nothing and
\* emits nothing; no socket ever gets a second call:ended for the call.
TeardownRace ==
  \A c \in DOMAIN activeCalls : \A sa \in Sids, sb \in Sids :
    LET call == activeCalls[c]
        a == SessUser[sa]
        b == SessUser[sb]
        r1 == LeaveResult(activeCalls, callRoom, sa, c)
        r2 == LeaveResult(r1.calls, r1.rooms, sb, c)
    IN (/\ Cardinality(call.members) = 3
        /\ Attached(sa) /\ Attached(sb)
        /\ a # b /\ {a, b} \subseteq call.members)
       => /\ call.host \notin {a, b}
               => /\ c \in DOMAIN r2.calls
                  /\ r2.calls[c].members = {call.host}
                  /\ EndedTo(r1.evs \cup r2.evs, c) = {}
          /\ call.host = a
               => /\ c \notin DOMAIN r1.calls
                  /\ EndedTo(r1.evs, c) = (callRoom[c] \cap Live) \ {sa}
                  /\ r2 = [r1 EXCEPT !.evs = {}]
          /\ call.host = b
               => /\ c \in DOMAIN r1.calls
                  /\ r1.calls[c].members = call.members \ {a}
                  /\ EndedTo(r1.evs, c) = {}
                  /\ c \notin DOMAIN r2.calls
                  /\ EndedTo(r2.evs, c) = (callRoom[c] \cap Live) \ {sa, sb}
          /\ \A t \in Sids : endedCount[t][c] = 0
          /\ \A x \in DOMAIN activeCalls \ {c} : x \in DOMAIN r2.calls /\ r2.calls[x] = activeCalls[x]

\* three users are in one call, each with a live socket in the call's room
TeardownWitness ==
  \E c \in DOMAIN activeCalls :
    /\ activeCalls[c].members = Users
    /\ \A u \in Users : \E s \in callRoom[c] : SessUser[s] = u /\ Attached(s)


(***************************************************************************)
(* Properties of the delivery pipeline                                     *)
(***************************************************************************)
\* the live sockets a message:new for a message of chat sent from socket s is
\* meant for: the room, every live socket of every participant, the sender
Audience(s, chat) ==
  Live \cap (chatRoom[chat] \cup {x \in Sids : SessUser[x] \in Participants(chat)} \cup {s})
NewEvents(evs, x, m) == {e \in evs : e.to = x /\ e.ev = "message:new" /\ e.id = m}
ErrorsTo(s) == {e \in emitted' : e.to = s /\ e.ev = "error"}
BlockBetween(u, chat) ==
  \E p \in Participants(chat) \ {u} : p \in blocked[u] \/ u \in blocked[p]

\* C3: when a message:send reaches its broadcast, every live socket of the
\* audience (in the room, of a participant, or both, and the sender's) gets
\* exactly one message:new for the message, the one for the sending socket
\* carrying the clientId; no socket ever holds a second message:new for a message
\* created by message:send.
SendFanOut ==
  /\ [][\A t \in sendTasks :
          SendBroadcast(t)
            => \A x \in Audience(t.sid, msgs[t.id].chat) :
                 /\ Cardinality(NewEvents(emitted', x, t.id)) = 1
                 /\ newCount'[x][t.id] = 1
                 /\ x = t.sid => \A e \in NewEvents(emitted', x, t.id) : e.val = t.cid]_vars
  /\ [](\A m \in DOMAIN msgs : \A x \in Sids : msgs[m].forwardOf = 0 => newCount[x][m] <= 1)

\* u2 has sent a message with clientId c1 to the group: both devices of u1 (s1 is
\* in the room, s2 is not) and the sender's socket have exactly one message:new
SendFanOutWitness ==
  \E m \in DOMAIN msgs :
    /\ msgs[m].chat = "g" /\ msgs[m].sender = "u2" /\ msgs[m].forwardOf = 0
    /\ "s1" \in chatRoom["g"] /\ "s2" \notin chatRoom["g"]
    /\ newCount["s1"][m] = 1 /\ newCount["s2"][m] = 1 /\ newCount["s3"][m] = 1
    /\ Ev("s3", "message:new", m, "u2", "c1") \in emitted

\* C4: no socket ever receives more than one message:new for the same durable
\* id, whichever operation created the message.
NoDuplicateNew == \A x \in Sids : \A m \in MsgIds : newCount[x][m] <= 1

\* C7: a message:send by a user who is not a participant of the chat, or to a
\* chat that does not exist, persists nothing, starts no broadcast and sends an
\* error to the sender's socket only.
SendNeedsParticipant ==
  [][\A s \in Sids, chat \in ChatIds, cid \in ClientIds :
       (SendCreate(s, chat, cid) /\ (chat \notin Chats \/ SessUser[s] \notin Participants(chat)))
         => /\ msgs' = msgs
            /\ sendTasks' = sendTasks
            /\ emitted' = ErrorsTo(s)
            /\ emitted' # {}]_vars

\* C8: in the direct chat, when either participant has the other in the block
\* list, a message:send from either of them persists nothing, starts no
\* broadcast, emits no message:new and sends an error to the sender's socket only.
BlockedSendRejected ==
  [][\A s \in Sids, chat \in Chats, cid \in ClientIds :
       (/\ SendCreate(s, chat, cid)
        /\ ~IsGroup(chat)
        /\ SessUser[s] \in Participants(chat)
        /\ BlockBetween(SessUser[s], chat))
         => /\ msgs' = msgs
            /\ sendTasks' = sendTasks
            /\ newCount' = newCount
            /\ emitted' = ErrorsTo(s)
            /\ emitted' # {}]_vars

\* u1 has blocked u2; u2 has sent to the direct chat and got the error
BlockedSendWitness ==
  /\ blocked["u1"] = {"u2"}
  /\ emitted = {Ev("s3", "error", 0, NoUser, "Recipient blocked you")}

\* C9: while the group is admin-only, a message:send to it from a non-admin
\* persists nothing, starts no broadcast and sends an error to the sender's
\* socket only; from an admin it creates the message, and its broadcast gives
\* every live socket of every participant exactly one message:new, in the room
\* or not.
AdminGate ==
  [][/\ \A s \in Sids, cid \in ClientIds :
          (SendCreate(s, "g", cid) /\ onlyAdmins)
            => IF SessUser[s] \in Admins("g")
                 THEN /\ msgs' = Append(msgs, NewMessage("g", SessUser[s]))
                      /\ emitted' = {}
                      /\ \E t \in sendTasks' \ sendTasks : t.sid = s /\ t.id = Len(msgs')
                 ELSE /\ msgs' = msgs
                      /\ sendTasks' = sendTasks
                      /\ emitted' = ErrorsTo(s)
                      /\ emitted' # {}
     /\ \A t \in sendTasks :
          (SendBroadcast(t) /\ onlyAdmins /\ msgs[t.id].chat = "g")
            => \A x \in Live :
                 SessUser[x] \in Participants("g")
                   => Cardinality(NewEvents(emitted', x, t.id)) = 1]_vars

\* the group is admin-only and the admin's message has reached every socket of
\* every participant, s1 alone being in the room
AdminGateWitness ==
  /\ onlyAdmins
  /\ chatRoom["g"] = {"s1"}
  /\ \E m \in DOMAIN msgs :
       /\ msgs[m].chat = "g" /\ msgs[m].sender = "u1" /\ msgs[m].forwardOf = 0
       /\ \A x \in Sids : newCount[x][m] = 1 /\ NewEvents(emitted, x, m) # {}

ReactionSet(list) == {list[k] : k \in 1..Len(list)}
OtherReactions(list, u, e) == SelectSeq(list, LAMBDA r : r # Reaction(u, e))

\* C10: for every message, user and emoji, message:react applied twice in a
\* row by that user with that emoji (the second after the first was saved)
\* leaves the message's set of reactions as it was before the first, and
\* leaves every other user's and every other emoji's reaction as it was.
ToggleTwiceRestores ==
  \A m \in DOMAIN msgs : \A u \in Users : \A e \in Emojis :
    LET r0 == msgs[m].reactions
        r2 == ToggleReaction(ToggleReaction(r0, u, e), u, e)
    IN /\ ReactionSet(r2) = ReactionSet(r0)
       /\ OtherReactions(r2, u, e) = OtherReactions(r0, u, e)

(***************************************************************************)
(* Presence notifications                                                  *)
(***************************************************************************)
PresenceEv(x, u, v) == Ev(x, "presence:update", 0, u, v)

\* C11: the connection handler of a user's only registered session ends with a
\* presence:update online=true for the user sent to every live socket; the
\* disconnect handler that leaves the user without a registered session ends
\* with a presence:update online=false for the user sent to every live socket;
\* and no presence:update online=false is sent for a user the registry holds.
PresenceNotified ==
  /\ [][\A s \in Sids :
          (connPc[s] = "await" /\ connPc'[s] # "await"
             /\ SessionsOf(onlineUsers, SessUser[s]) = {s})
            => \A x \in Live : PresenceEv(x, SessUser[s], "online") \in emitted']_vars
  /\ [][\A s \in Sids :
          (discPc[s] = "await" /\ discPc'[s] # "await" /\ ~IsOnline(SessUser[s]))
            => \A x \in Live : PresenceEv(x, SessUser[s], "offline") \in emitted']_vars
  /\ [][\A e \in emitted' :
          (e.ev = "presence:update" /\ e.val = "offline") => ~IsOnline(e.who)]_vars

(***************************************************************************)
(* Call references: every call event arrives with every call id, known to  *)
(* the table or not, from connected sessions.                              *)
(***************************************************************************)
NextCallRef ==
  \/ \E s \in Sids, chat \in ChatIds : CallStart(s, chat) /\ UNCHANGED browserVars
  \/ \E s \in Sids, c \in CallIds : CallAccept(s, c) /\ UNCHANGED browserVars
  \/ \E s \in Sids, c \in CallIds : CallReject(s, c) /\ UNCHANGED browserVars
  \/ \E s \in Sids, c \in CallIds, to \in Users : CallSignal(s, c, to) /\ UNCHANGED browserVars
  \/ \E s \in Sids, c \in CallIds : CallLeave(s, c) /\ UNCHANGED browserVars
  \/ \E s \in Sids, c \in CallIds : CallEnd(s, c) /\ UNCHANGED browserVars

SpecCallRef == InitCall /\ [][NextCallRef]_vars

\* C12: a call:accept, call:reject, call:leave, call:end or call:signal with a
\* call id the table does not hold leaves the call table, the call rooms and the
\* presence registry as they were, and emits exactly one event: a call:error to
\* the calling socket.
UnknownCallReported ==
  [][\A s \in Sids : \A c \in CallIds :
       (/\ c \notin DOMAIN activeCalls
        /\ \/ CallAccept(s, c)
           \/ CallReject(s, c)
           \/ CallLeave(s, c)
           \/ CallEnd(s, c)
           \/ \E to \in Users : CallSignal(s, c, to))
         => /\ UNCHANGED <<activeCalls, callRoom, onlineUsers>>
            /\ emitted' = {Ev(s, "call:error", 0, NoUser, NoVal)}]_vars

(***************************************************************************)
(* Failures of message:send                                                *)
(***************************************************************************)
\* u1 has blocked u2 and the group is admin-only or not: sends are refused by
\* the guards, fail at a persistence call, or go through
InitSendFail ==
  /\ InitSend
  /\ blocked = [u \in Users |-> IF u = "u1" THEN {"u2"} ELSE {}]

NextSendFail ==
  \/ \E s \in Sids, chat \in ChatIds, cid \in ClientIds : SendCreate(s, chat, cid) /\ UNCHANGED browserVars
  \/ \E s \in Sids : SendCreateFail(s) /\ UNCHANGED browserVars
  \/ \E t \in sendTasks : SendBroadcast(t) /\ UNCHANGED browserVars
  \/ \E t \in sendTasks : SendAbort(t) /\ UNCHANGED browserVars

SpecSendFail == InitSendFail /\ [][NextSendFail]_vars

\* the steps at which the message:send of socket s fails
SendFails(s) ==
  \/ \E chat \in ChatIds, cid \in ClientIds :
       SendGuard(SessUser[s], chat) # "ok" /\ SendCreate(s, chat, cid)
  \/ SendCreateFail(s)
  \/ \E t \in sendTasks : t.op = "send" /\ t.sid = s /\ SendAbort(t)

Typing(s, c, payload) ==
  /\ Attached(s)
  /\ emitted' = IF payload
                  THEN ToLive(chatRoom[c] \ {s}, "typing", 0, SessUser[s], NoVal)
                  ELSE {Uncaught}
  /\ UNCHANGED <<connVars, roomVars, chatVars, msgVars, callVars, logVars>>

\* message:delivered / message:read with a messageId that is no ObjectId:
\* Message.findById rejects (lines 555, 567) and nothing catches it
AckBadId(s) ==
  /\ Attached(s)
  /\ emitted' = {Unhandled}
  /\ UNCHANGED <<connVars, roomVars, chatVars, msgVars, callVars, logVars>>

\* the process ends: every socket closes, the registry, the call table and
\* the running handlers are gone with the process's memory
ProcessExit ==
  /\ emitted \cap {Unhandled, Uncaught} # {}
  /\ sock' = [s \in Sids |-> IF sock[s] = "connected" THEN "closed" ELSE sock[s]]
  /\ onlineUsers' = EmptyMap
  /\ chatRoom' = [c \in Chats |-> {}]
  /\ callRoom' = [c \in CallIds |-> {}]
  /\ activeCalls' = EmptyMap
  /\ sendTasks' = {}
  /\ ackTasks' = {}
  /\ mutTasks' = {}
  /\ emitted' = {}
  /\ UNCHANGED <<connPc, discPc, chatVars, msgs, acks, callSeq, logVars>>

NextFatal ==
  \/ ProcessExit /\ UNCHANGED browserVars
  \/ /\ Uncaught \notin emitted
     /\ \/ \E s \in Sids, c \in Chats, payload \in BOOLEAN : Typing(s, c, payload) /\ UNCHANGED browserVars
        \/ \E s \in Sids : AckBadId(s) /\ UNCHANGED browserVars
        \/ \E s \in Sids, op \in {"delivered", "read"}, m \in MsgIds : AckStart(s, op, m) /\ UNCHANGED browserVars
        \/ \E t \in ackTasks : AckSave(t) /\ UNCHANGED browserVars
        \/ \E t \in ackTasks : AckEmit(t) /\ UNCHANGED browserVars
        \/ \E t \in ackTasks : AckFail(t) /\ UNCHANGED browserVars

SpecFatal == InitAck /\ [][NextFatal]_vars

\* C14: no handler of a client event ends in an exception or a rejection that
\* nothing catches: neither uncaughtException nor unhandledRejection is ever
\* raised on the process, whatever payload an event carries and whichever
\* persistence call fails.
NoFatalEvent == emitted \cap {Unhandled, Uncaught} = {}

(***************************************************************************)
(* The auth gate (lines 419-429).  A handshake carries no token, a token   *)
(* jwt.verify refuses, or a token it accepts.  Socket.IO runs the          *)
(* connection handler only when the middleware calls next() with no error; *)
(* otherwise the client gets connect_error and the socket is dropped.      *)
(***************************************************************************)
Tokens == {"none", "bad", "good"}

\* the gate with jwt.verify left out
AuthGateNoVerify(token) == IF token = "none" THEN "No token" ELSE "ok"

\* the error the middleware passes to next(), or "ok"
AuthGate(token) ==
  IF token = "none" THEN "No token"
  ELSE IF token = "bad" THEN "Auth failed"
  ELSE "ok"

\* the handshake is refused: no handler runs for the socket
Refuse(s) ==
  /\ sock[s] = "idle"
  /\ sock' = [sock EXCEPT ![s] = "refused"]
  /\ emitted' = {Ev(s, "connect_error", 0, NoUser, NoVal)}
  /\ UNCHANGED <<connPc, discPc, onlineUsers, roomVars, chatVars, msgVars, callVars, logVars>>

Handshake(s, token) == IF AuthGate(token) = "ok" THEN Connect(s) ELSE Refuse(s)

NextAuth ==
  \/ \E s \in Sids, token \in Tokens : Handshake(s, token) /\ UNCHANGED browserVars
  \/ \E s \in Sids : ConnectResume(s) /\ UNCHANGED browserVars
  \/ \E s \in Sids : ConnectFail(s) /\ UNCHANGED browserVars
  \/ \E s \in Sids, c \in Chats : ChatJoin(s, c) /\ UNCHANGED browserVars
  \/ \E s \in Sids, c \in Chats, payload \in BOOLEAN : Typing(s, c, payload) /\ UNCHANGED browserVars
  \/ \E s \in Sids : Disconnect(s) /\ UNCHANGED browserVars
  \/ \E s \in Sids : DisconnectResume(s) /\ UNCHANGED browserVars
  \/ \E s \in Sids : DisconnectFail(s) /\ UNCHANGED browserVars

SpecAuth == InitFresh /\ [][NextAuth]_vars

\* C15: a handshake without a token or with a token that fails verification
\* is refused: the registry is not touched and no presence:update is sent at
\* that step; a refused socket stays refused, its connection handler never
\* starts, it is never in the registry nor in a room, and no step emits an
\* event on its behalf or delivers one to it after the refusal.
AuthGateHolds ==
  /\ [][\A s \in Sids : \A token \in {"none", "bad"} :
          Handshake(s, token)
            => /\ sock'[s] = "refused"
               /\ UNCHANGED <<connPc, onlineUsers, chatRoom>>
               /\ \A e \in emitted' : e.ev # "presence:update"]_vars
  /\ [][\A s \in Sids :
          sock[s] = "refused"
            => /\ sock'[s] = "refused"
               /\ \A e \in emitted' : e.to # s]_vars
  /\ [](\A s \in Sids :
          sock[s] = "refused"
            => /\ connPc[s] = "none" /\ discPc[s] = "none"
               /\ \A u \in DOMAIN onlineUsers : s \notin onlineUsers[u]
               /\ \A c \in Chats : s \notin chatRoom[c])

\* s1 presented a bad token and was refused; u1's other device is connected and
\* in the group's room, and u1 is online through it alone
AuthGateWitness ==
  /\ sock["s1"] = "refused"
  /\ connPc["s2"] = "attached" /\ sock["s2"] = "connected"
  /\ onlineUsers = [u \in {"u1"} |-> {"s2"}]
  /\ chatRoom["g"] = {"s2"}

(***************************************************************************)
(* Ordering: the store is empty and every session is connected; sockets    *)
(* send, and the handlers of different sends interleave at their awaits.   *)
(* The durable ids are given in the order of the Message.create calls.     *)
(***************************************************************************)
InitOrder == InitWatched /\ msgs = <<>>

NextOrder ==
  \/ \E s \in Sids, chat \in ChatIds, cid \in ClientIds : SendCreate(s, chat, cid) /\ UNCHANGED browserVars
  \/ \E s \in Sids : SendCreateFail(s) /\ UNCHANGED browserVars
  \/ \E t \in sendTasks : SendBroadcast(t) /\ UNCHANGED browserVars
  \/ \E t \in sendTasks : SendAbort(t) /\ UNCHANGED browserVars

SpecOrder == InitOrder /\ [][NextOrder]_vars

\* C16: message:new events of one chat are emitted in the order in which the
\* messages were persisted: when a socket receives the message:new of a
\* message, it has not yet received the message:new of a message of the same
\* chat persisted after it.
BroadcastInOrder ==
  [][\A e \in emitted' :
       e.ev = "message:new"
         => \A m \in DOMAIN msgs :
              (m > e.id /\ msgs[m].chat = msgs[e.id].chat) => newCount[e.to][m] = 0]_vars

(***************************************************************************)
(* Fan-out of message:update                                               *)
(***************************************************************************)
\* the live sockets that can see the messages of a chat: those in its room and
\* those of its participants
UpdateAudience(chat) ==
  {x \in Live : x \in chatRoom[chat] \/ SessUser[x] \in Participants(chat)}

\* the step is the emission that ends a successful mutation of message m
MutationEmits(m) ==
  \/ \E t \in ackTasks : t.id = m /\ AckEmit(t)
  \/ \E t \in mutTasks : t.id = m /\ ReactEmit(t)

\* C17: the emission that ends a successful mark-delivered, mark-read or react
\* sends a message:update for the message to every live socket in the chat's
\* room and to every live socket of every participant of the chat, in the room
\* or not.
UpdateFanOut ==
  [][\A m \in DOMAIN msgs :
       MutationEmits(m)
         => \A x \in UpdateAudience(msgs[m].chat) :
              \E e \in emitted' : e.to = x /\ e.ev = "message:update" /\ e.id = m]_vars

(***************************************************************************)
(* message:edit, message:delete, message:star, message:pin (lines 599-676) *)
(* Each handler reads the document (and, for a hard delete and a pin, the  *)
(* chat), checks the actor, changes its copy and saves it.  save() writes  *)
(* the paths whose value changed, whatever the store holds by then; an     *)
(* array assigned as a whole (starredBy) is written under the document     *)
(* version and a stale version makes save() throw; a pushed entry          *)
(* (deletedFor) is appended.  A date is the ordinal of the event.          *)
(***************************************************************************)
TextLimit == 5000

\* (text || '').slice(0, 5000), line 606
Slice(t) == IF t.len > TextLimit THEN [t EXCEPT !.len = TextLimit] ELSE t

\* the texts clients put in message:edit: none, a short one, one over the limit
EditTexts == {NoText, Text("b", 3), Text("c", TextLimit + 1)}

SavedPaths == {"text", "editedAt", "deletedForAllAt", "mediaUrl", "mediaName",
               "starredBy", "pinnedAt", "pinnedBy"}

\* the handler past its checks: its copy, the paths save() will write
MutTask(op, s, m, copy, pushDel, scope) ==
  [op |-> op, sid |-> s, id |-> m, n |-> acks,
   pc |-> IF copy = msgs[m] /\ ~pushDel THEN "emit" ELSE "save",
   copy |-> copy,
   paths |-> {f \in SavedPaths : copy[f] # msgs[m][f]},
   pushDel |-> pushDel,
   v |-> msgs[m].v,
   scope |-> scope]

\* the outcome of a handler's first part: no document (the handler returns), an
\* error thrown (the catch reports it to the socket), or a task
MutBegin(op, s, m, err, copy, pushDel, scope) ==
  /\ Attached(s)
  /\ acks < MaxAcks
  /\ acks' = acks + 1
  /\ IF m \notin DOMAIN msgs
       THEN /\ emitted' = {}
            /\ mutTasks' = mutTasks
       ELSE IF err # "ok"
         THEN /\ emitted' = ToLive({s}, "error", m, NoUser, op)
              /\ mutTasks' = mutTasks
         ELSE /\ emitted' = {}
              /\ mutTasks' = mutTasks \cup {MutTask(op, s, m, copy, pushDel, scope)}
  /\ UNCHANGED <<connVars, roomVars, chatVars, msgs, sendTasks, ackTasks, callVars, logVars>>

\* the checks of message:edit with the sender check left out
EditErrorAnyone(u, doc) ==
  IF doc.type # "text" THEN "Only text can be edited"
  ELSE IF doc.deletedForAllAt # 0 THEN "Message was deleted"
  ELSE "ok"

\* lines 603-605
EditError(u, doc) ==
  IF doc.sender # u THEN "Only sender can edit"
  ELSE IF doc.type # "text" THEN "Only text can be edited"
  ELSE IF doc.deletedForAllAt # 0 THEN "Message was deleted"
  ELSE "ok"

\* message:edit up to the save (lines 600-607)
EditStart(s, m, text) ==
  LET doc == IF m \in DOMAIN msgs THEN msgs[m] ELSE NewMessage("g", NoUser)
  IN MutBegin("message:edit", s, m, EditError(SessUser[s], doc),
              [doc EXCEPT !.text = Slice(text), !.editedAt = acks + 1], FALSE, "all")

\* lines 621-624
DeleteError(u, doc) ==
  IF doc.sender = u \/ (IsGroup(doc.chat) /\ u \in Admins(doc.chat)) THEN "ok" ELSE "Not allowed"

\* lines 626-632
Tombstone(doc, now) ==
  IF doc.deletedForAllAt # 0 THEN doc
  ELSE [doc EXCEPT !.deletedForAllAt = now, !.text = NoText, !.mediaUrl = "", !.mediaName = ""]

\* message:delete up to the save (lines 616-637): for everyone, or for the
\* user alone
DeleteStart(s, m, forEveryone) ==
  LET u == SessUser[s]
      doc == IF m \in DOMAIN msgs THEN msgs[m] ELSE NewMessage("g", NoUser)
  IN IF forEveryone
       THEN MutBegin("message:delete", s, m, DeleteError(u, doc),
                     Tombstone(doc, acks + 1), FALSE, "all")
       ELSE MutBegin("message:delete", s, m, "ok",
                     IF InSeq(u, doc.deletedFor) THEN doc
                     ELSE [doc EXCEPT !.deletedFor = Append(@, u)],
                     ~InSeq(u, doc.deletedFor), "self")

\* message:star up to the save (lines 649-654)
StarStart(s, m, star) ==
  LET u == SessUser[s]
      doc == IF m \in DOMAIN msgs THEN msgs[m] ELSE NewMessage("g", NoUser)
  IN MutBegin("message:star", s, m, "ok",
              [doc EXCEPT !.starredBy = IF star THEN @ \cup {u} ELSE @ \ {u}], FALSE, "all")

\* lines 666-668: in a group the admins, in a direct chat anyone
PinError(u, doc) ==
  IF IsGroup(doc.chat) /\ u \notin Admins(doc.chat) THEN "Admins only" ELSE "ok"

\* message:pin up to the save (lines 663-670)
PinStart(s, m, pin) ==
  LET u == SessUser[s]
      doc == IF m \in DOMAIN msgs THEN msgs[m] ELSE NewMessage("g", NoUser)
  IN MutBegin("message:pin", s, m, PinError(u, doc),
              [doc EXCEPT !.pinnedAt = IF pin THEN acks + 1 ELSE 0,
                          !.pinnedBy = IF pin THEN u ELSE NoUser], FALSE, "all")

MutOps == {"message:edit", "message:delete", "message:star", "message:pin"}

\* msg.save() (lines 608, 633, 638, 655, 671)
MutSave(t) ==
  /\ t \in mutTasks /\ t.op \in MutOps /\ t.pc = "save"
  /\ LET d0 == msgs[t.id]
         versioned == "starredBy" \in t.paths
         d1 == [f \in DOMAIN d0 |-> IF f \in t.paths THEN t.copy[f] ELSE d0[f]]
         d2 == IF t.pushDel THEN [d1 EXCEPT !.deletedFor = Append(@, SessUser[t.sid])] ELSE d1
         d3 == IF versioned \/ t.pushDel THEN [d2 EXCEPT !.v = @ + 1] ELSE d2
     IN IF versioned /\ d0.v # t.v
          THEN /\ msgs' = msgs
               /\ mutTasks' = mutTasks \ {t}
               /\ emitted' = ToLive({t.sid}, "error", t.id, NoUser, t.op)
          ELSE /\ msgs' = [msgs EXCEPT ![t.id] = d3]
               /\ mutTasks' = (mutTasks \ {t}) \cup {[t EXCEPT !.pc = "emit"]}
               /\ emitted' = {}
  /\ UNCHANGED <<connVars, roomVars, chatVars, sendTasks, ackTasks, acks, callVars, logVars>>

\* broadcastMsgUpdate (lines 609, 634, 656, 672), or the emit to the socket
\* alone of a delete for the user (lines 640-641): the copy is sent
MutEmit(t) ==
  /\ t \in mutTasks /\ t.op \in MutOps /\ t.pc = "emit"
  /\ LET targets == IF t.scope = "all" THEN UpdateTargets(msgs[t.id].chat) ELSE {t.sid}
         evs == ToLive(targets, "message:update", t.id, NoUser, t.copy.status)
     IN /\ emitted' = evs
        /\ statusSeen' = SeenAfter(evs)
  /\ mutTasks' = mutTasks \ {t}
  /\ UNCHANGED <<connVars, roomVars, chatVars, msgs, sendTasks, ackTasks, acks, callVars,
                 newCount, endedCount>>

\* the save, the chat lookup or the hydration rejects: the catch reports it
MutFail(t) ==
  /\ t \in mutTasks /\ t.op \in MutOps
  /\ mutTasks' = mutTasks \ {t}
  /\ emitted' = ToLive({t.sid}, "error", t.id, NoUser, t.op)
  /\ UNCHANGED <<connVars, roomVars, chatVars, msgs, sendTasks, ackTasks, acks, callVars, logVars>>

(***************************************************************************)
(* Mutations: every session is connected; the store holds a text message   *)
(* of the direct chat sent by u1 (u3 is no participant of that chat) and    *)
(* an image of the group sent by u2 (u1 is the group's admin).              *)
(***************************************************************************)
InitMut ==
  /\ InitWatched
  /\ msgs = <<NewMessage("d", "u1"),
              [NewMessage("g", "u2") EXCEPT !.type = "image", !.text = NoText,
                                            !.mediaUrl = "url", !.mediaName = "name"]>>

NextMut ==
  \/ \E s \in Sids, m \in 0..MaxMsgs, text \in EditTexts : EditStart(s, m, text) /\ UNCHANGED browserVars
  \/ \E s \in Sids, m \in 0..MaxMsgs, forEveryone \in BOOLEAN : DeleteStart(s, m, forEveryone) /\ UNCHANGED browserVars
  \/ \E s \in Sids, m \in 0..MaxMsgs, star \in BOOLEAN : StarStart(s, m, star) /\ UNCHANGED browserVars
  \/ \E s \in Sids, m \in 0..MaxMsgs, pin \in BOOLEAN : PinStart(s, m, pin) /\ UNCHANGED browserVars
  \/ \E s \in Sids, m \in 0..MaxMsgs, e \in Emojis \cup {NoEmoji} : ReactStart(s, m, e) /\ UNCHANGED browserVars
  \/ \E t \in mutTasks : MutSave(t) /\ UNCHANGED browserVars
  \/ \E t \in mutTasks : MutEmit(t) /\ UNCHANGED browserVars
  \/ \E t \in mutTasks : MutFail(t) /\ UNCHANGED browserVars
  \/ \E t \in mutTasks : ReactSave(t) /\ UNCHANGED browserVars
  \/ \E t \in mutTasks : ReactEmit(t) /\ UNCHANGED browserVars
  \/ \E t \in mutTasks : ReactFail(t) /\ UNCHANGED browserVars

SpecMut == InitMut /\ [][NextMut]_vars

(***************************************************************************)
(* Authorization of mutations                                              *)
(***************************************************************************)
\* the actor of the running handler t is one the rules allow: the sender for an
\* edit; the sender or an admin of the group for a delete for everyone; a
\* participant of the chat for a delete for oneself, a reaction and a star; an
\* admin of the group, or a participant of the direct chat, for a pin
ActorAllowed(t) ==
  LET u == SessUser[t.sid]
      doc == msgs[t.id]
      chat == doc.chat
  IN CASE t.op = "message:edit" -> u = doc.sender
       [] t.op = "message:delete" /\ t.scope = "all" ->
            u = doc.sender \/ (IsGroup(chat) /\ u \in Admins(chat))
       [] t.op = "message:pin" ->
            IF IsGroup(chat) THEN u \in Admins(chat) ELSE u \in Participants(chat)
       [] OTHER -> u \in Participants(chat)

\* C18: a save that changes a message, and an emission of message:update that
\* reaches a socket other than the requesting one, are steps of a handler whose
\* actor is allowed to make that mutation.
MutationAuthorized ==
  [][\A t \in mutTasks :
       /\ ((MutSave(t) \/ ReactSave(t)) /\ msgs' # msgs) => ActorAllowed(t)
       /\ ((MutEmit(t) \/ ReactEmit(t)) /\ \E e \in emitted' : e.to # t.sid)
            => ActorAllowed(t)]_vars

(***************************************************************************)
(* Tombstones                                                              *)
(***************************************************************************)
\* C19: a message deleted for everyone stays in the store under its id with
\* empty text, mediaUrl and mediaName, and its deletedForAllAt never changes
\* again, whatever handlers run or were running when the delete was saved.
TombstoneKept ==
  /\ [](\A m \in DOMAIN msgs :
          msgs[m].deletedForAllAt # 0
            => msgs[m].text = NoText /\ msgs[m].mediaUrl = "" /\ msgs[m].mediaName = "")
  /\ [][\A m \in DOMAIN msgs :
          msgs[m].deletedForAllAt # 0
            => /\ m \in DOMAIN msgs'
               /\ msgs'[m].deletedForAllAt = msgs[m].deletedForAllAt]_vars

(***************************************************************************)
(* Edits: messages are edited and deleted for everyone, by their sender    *)
(* and by others.                                                          *)
(***************************************************************************)
NextEdit ==
  \/ \E s \in Sids, m \in 0..MaxMsgs, text \in EditTexts : EditStart(s, m, text) /\ UNCHANGED browserVars
  \/ \E s \in Sids, m \in 0..MaxMsgs : DeleteStart(s, m, TRUE) /\ UNCHANGED browserVars
  \/ \E t \in mutTasks : MutSave(t) /\ UNCHANGED browserVars
  \/ \E t \in mutTasks : MutEmit(t) /\ UNCHANGED browserVars
  \/ \E t \in mutTasks : MutFail(t) /\ UNCHANGED browserVars

SpecEdit == InitMut /\ [][NextEdit]_vars

\* the stored message m may not be edited by user u
EditForbidden(u, m) ==
  \/ msgs[m].type # "text"
  \/ msgs[m].deletedForAllAt # 0
  \/ msgs[m].sender # u

\* C20: a message:edit for a stored message that is not a text, was deleted
\* for everyone, or was sent by another user emits one error to the requesting
\* socket and nothing else, changes no message and starts no save, so text and
\* editedAt stay and no message:update follows; an edit that is accepted goes on
\* with the first 5000 characters of the new text, and its save sets editedAt
\* and stores that text (when the message carried that very text as the handler
\* read it, save() writes no text and the stored one stays), never more than
\* 5000 characters.
EditRestricted ==
  /\ [][\A s \in Sids : \A m \in DOMAIN msgs : \A text \in EditTexts :
          EditStart(s, m, text)
            => IF EditForbidden(SessUser[s], m)
                 THEN /\ emitted' = {Ev(s, "error", m, NoUser, "message:edit")}
                      /\ msgs' = msgs
                      /\ mutTasks' = mutTasks
                 ELSE \E t \in mutTasks' \ mutTasks :
                        /\ t.op = "message:edit" /\ t.id = m /\ t.sid = s
                        /\ t.copy.text.tag = text.tag
                        /\ t.copy.text.len = IF text.len > 5000 THEN 5000 ELSE text.len]_vars
  /\ [][\A t \in mutTasks :
          (t.op = "message:edit" /\ MutSave(t))
            => /\ \/ msgs'[t.id].text = t.copy.text
                  \/ "text" \notin t.paths /\ msgs'[t.id].text = msgs[t.id].text
               /\ msgs'[t.id].text.len <= 5000
               /\ msgs'[t.id].editedAt = t.copy.editedAt
               /\ msgs'[t.id].editedAt # 0]_vars
  /\ [][\A e \in emitted' :
          (e.ev = "message:update" /\ \E t \in mutTasks : t.op = "message:edit" /\ MutEmit(t))
            => \E t \in mutTasks : t.op = "message:edit" /\ t.id = e.id /\ t.pc = "emit"]_vars

\* the sender's edit with a text over the limit was saved, cut to 5000
\* characters, and an edit of the same message by another user has just been
\* refused
EditWitness ==
  /\ msgs[1].text = Text("c", 5000)
  /\ msgs[1].editedAt # 0
  /\ emitted = {Ev("s3", "error", 1, NoUser, "message:edit")}

(***************************************************************************)
(* Properties of the call handlers                                         *)
(***************************************************************************)
\* C21: call:end for a call of the table, issued by a user who is not its
\* host, leaves the table and the call rooms as they are and emits nothing;
\* issued by the host, it removes that call alone from the table and emits
\* call:ended, and nothing else, to every live socket in the call.
EndIsHostOnly ==
  [][\A s \in Sids : \A c \in DOMAIN activeCalls :
       CallEnd(s, c)
         => IF activeCalls[c].host = SessUser[s]
              THEN /\ DOMAIN activeCalls' = DOMAIN activeCalls \ {c}
                   /\ \A x \in DOMAIN activeCalls' : activeCalls'[x] = activeCalls[x]
                   /\ emitted' = {Ev(x, "call:ended", c, NoUser, "ended_by_host") :
                                    x \in callRoom[c] \cap Live}
              ELSE /\ UNCHANGED <<activeCalls, callRoom>>
                   /\ emitted' = {}]_vars

\* the host has just ended a call two other sockets had joined: all three got
\* call:ended and the table is empty
EndWitness ==
  /\ activeCalls = EmptyMap
  /\ Cardinality({e \in emitted : e.ev = "call:ended" /\ e.val = "ended_by_host"}) = 3

\* C22: call:accept for a call of the table adds the accepting user to its
\* members and changes nothing else of the call; the accepting socket gets
\* call:participants with the members as they are after the step; every other
\* live socket in the call gets call:joined for the user and the accepting
\* socket gets none; when the user is a member already the members stay as
\* they are.
AcceptJoins ==
  [][\A s \in Sids : \A c \in DOMAIN activeCalls :
       CallAccept(s, c)
         => /\ c \in DOMAIN activeCalls'
            /\ activeCalls'[c] = [activeCalls[c] EXCEPT !.members = @ \cup {SessUser[s]}]
            /\ (SessUser[s] \in activeCalls[c].members
                  => activeCalls'[c].members = activeCalls[c].members)
            /\ \E e \in emitted' :
                 /\ e.to = s /\ e.ev = "call:participants" /\ e.id = c
                 /\ e.mem = activeCalls'[c].members
            /\ \A x \in (callRoom[c] \cap Live) \ {s} :
                 Ev(x, "call:joined", c, SessUser[s], NoVal) \in emitted'
            /\ \A e \in emitted' : e.ev = "call:joined" => e.to # s]_vars

\* s3 has just accepted the call u1 started on s1: u2 is a member, s3 holds the
\* list of both members and s1 was told u2 joined
AcceptWitness ==
  /\ 1 \in DOMAIN activeCalls
  /\ activeCalls[1].host = "u1"
  /\ activeCalls[1].members = {"u1", "u2"}
  /\ [Ev("s3", "call:participants", 1, "u1", NoVal) EXCEPT !.mem = {"u1", "u2"}] \in emitted
  /\ Ev("s1", "call:joined", 1, "u2", NoVal) \in emitted

\* call:leave of socket s applied to the calls cs, one after the other
RECURSIVE LeaveAll(_, _, _, _)
LeaveAll(calls, rooms, s, cs) ==
  IF cs = {}
    THEN [calls |-> calls, rooms |-> rooms, evs |-> {}]
    ELSE LET c == CHOOSE x \in cs : TRUE
             r == LeaveResult(calls, rooms, s, c)
             rest == LeaveAll(r.calls, r.rooms, s, cs \ {c})
         IN [calls |-> rest.calls, rooms |-> rest.rooms, evs |-> r.evs \cup rest.evs]

\* C23: when the disconnect handler of a dropped connection ends, the call
\* table is the one call:leave by that socket would have left for every call
\* its user was a member of, the call events emitted are those call:leave
\* would have emitted, the user is a member of no call, and the calls the user
\* was not a member of are as they were.
SweepIsLeave ==
  [][\A s \in Sids :
       (discPc[s] = "await" /\ discPc'[s] = "ended")
         => LET u == SessUser[s]
                r == LeaveAll(activeCalls, callRoom, s, CallsOf(u))
            IN /\ activeCalls' = r.calls
               /\ {e \in emitted' : e.ev \in {"call:left", "call:ended"}} = r.evs
               /\ \A c \in DOMAIN activeCalls' : u \notin activeCalls'[c].members
               /\ \A c \in DOMAIN activeCalls \ CallsOf(u) :
                    c \in DOMAIN activeCalls' /\ activeCalls'[c] = activeCalls[c]]_vars

\* C24: a call:start by a user who is not a participant of the chat leaves the
\* call table as it is and emits no call:ring, and in every state every member
\* of every call of the table is a participant of the call's chat.
CallMembersParticipate ==
  /\ [][\A s \in Sids : \A chat \in ChatIds :
          (CallStart(s, chat) /\ (chat \notin Chats \/ SessUser[s] \notin Participants(chat)))
            => /\ UNCHANGED activeCalls
               /\ \A e \in emitted' : e.ev # "call:ring"]_vars
  /\ [](\A c \in DOMAIN activeCalls :
          activeCalls[c].members \subseteq Participants(activeCalls[c].chatId))

(***************************************************************************)
(* call:start awaits the chat lookup of line 722 before it touches the     *)
(* table.  When the socket has closed by then, its disconnect handler has  *)
(* run or is running; the rest of call:start runs all the same: the call   *)
(* is put in the table, the closed socket's id is put in the call's room,  *)
(* the events for the closed socket go nowhere and the others are rung.    *)
(***************************************************************************)
CallStartLate(s, chat) ==
  /\ sock[s] = "closed" /\ connPc[s] = "attached"
  /\ chat \in Chats /\ SessUser[s] \in Participants(chat)
  /\ callSeq < MaxCalls
  /\ LET u == SessUser[s]
         id == callSeq + 1
     IN /\ callSeq' = id
        /\ activeCalls' = [c \in DOMAIN activeCalls \cup {id} |->
                             IF c = id THEN [chatId |-> chat, host |-> u, members |-> {u}]
                                       ELSE activeCalls[c]]
        /\ callRoom' = [callRoom EXCEPT ![id] = @ \cup {s}]
        /\ emitted' = ToLive(SocketsOfUsers(Participants(chat) \ {u}), "call:ring", id, u, NoVal)
  /\ UNCHANGED <<connVars, chatRoom, chatVars, msgVars, logVars>>

NextCallRace ==
  \/ NextCall
  \/ \E s \in Sids, chat \in Chats : CallStartLate(s, chat) /\ UNCHANGED browserVars

SpecCallRace == InitCall /\ [][NextCallRace]_vars

\* C25: every call of the table has its host among its members, so its member
\* set is not empty; the host of a call never changes while the call is in the
\* table; a step that takes the host out of the members takes the call out of
\* the table.
HostIsMember ==
  /\ [](\A c \in DOMAIN activeCalls :
          activeCalls[c].host \in activeCalls[c].members /\ activeCalls[c].members # {})
  /\ [][\A c \in DOMAIN activeCalls :
          c \in DOMAIN activeCalls' =>
            /\ activeCalls'[c].host = activeCalls[c].host
            /\ activeCalls[c].host \in activeCalls'[c].members]_vars

\* the host u1 has just left a call u2 had joined on s3: s3 was told the call
\* ended and the call is no longer in the table
HostLeftWitness ==
  /\ callSeq = 1
  /\ activeCalls = EmptyMap
  /\ Ev("s3", "call:left", 1, "u1", NoVal) \in emitted
  /\ Ev("s3", "call:ended", 1, NoUser, "host_left") \in emitted

(***************************************************************************)
(* The browser of s1: its chat store and the socket listeners that feed    *)
(* it.  An entry of a list is a message as far as reconciliation reads it: *)
(* its durable _id (0: none yet), its clientId (NoVal: none) and status.   *)
(* A lookup key is an _id or a clientId; the two are strings of different  *)
(* shapes, so a key of one kind never equals a value of the other.         *)
(***************************************************************************)
Me == "s1"
Entry(id, cid, status) == [id |-> id, cid |-> cid, status |-> status]
IdKey(id) == [id |-> id, cid |-> NoVal]
CidKey(cid) == [id |-> 0, cid |-> cid]

\* findIndex: the first of the indices whose entries satisfy the test, 0 for none
FirstIndex(hits) ==
  IF hits = {} THEN 0 ELSE CHOOSE i \in hits : \A j \in hits : i <= j

HasId(list, id) == id # 0 /\ \E i \in DOMAIN list : list[i].id = id

\* pushMessage: append unless the list holds an entry of the same _id
pushMessage(list, msg) == IF HasId(list, msg.id) THEN list ELSE Append(list, msg)

\* replaceTemp: the entry whose clientId is the key, else the entry whose _id
\* is the key, is replaced in place; with neither, realMsg is appended unless
\* the list holds an entry of its _id
replaceTemp(list, key, realMsg) ==
  LET ByCid(m) == m.cid # NoVal /\ key.cid # NoVal /\ m.cid = key.cid
      ById(m) == m.id # 0 /\ key.id # 0 /\ m.id = key.id
      c == FirstIndex({i \in DOMAIN list : ByCid(list[i])})
      idx == IF c # 0 THEN c ELSE FirstIndex({i \in DOMAIN list : ById(list[i])})
  IN IF idx # 0 THEN [list EXCEPT ![idx] = realMsg]
     ELSE IF HasId(list, realMsg.id) THEN list
     ELSE Append(list, realMsg)

\* socket.on("message:new") and socket.on("message:update"), as far as they
\* touch the lists: the events evs of one step reach the browser in that step
Receive(evs) ==
  LET mine == {e \in evs : e.to = Me /\ e.ev \in {"message:new", "message:update"}}
  IN IF mine = {} THEN UNCHANGED messages
     ELSE LET e == CHOOSE x \in mine : TRUE
              chat == msgs[e.id].chat
          IN messages' =
               [messages EXCEPT ![chat] =
                  IF e.ev = "message:update"
                    THEN replaceTemp(@, IdKey(e.id), Entry(e.id, NoVal, e.val))
                  ELSE IF e.val # NoVal
                    THEN replaceTemp(@, CidKey(e.val), Entry(e.id, e.val, msgs[e.id].status))
                  ELSE pushMessage(@, Entry(e.id, NoVal, msgs[e.id].status))]

\* the correlation ids makeClientId() can return in this browser, and the
\* one the browser of s3 puts in the one message it sends
OwnIds == {"c1", "c2"}
OtherId == "c9"

\* sendText: the optimistic entry is pushed, then message:send is emitted
SendText(chat, cid) ==
  /\ sock[Me] = "connected"
  /\ cid \in OwnIds \ made
  /\ made' = made \cup {cid}
  /\ messages' = [messages EXCEPT ![chat] = pushMessage(@, Entry(0, cid, "sending"))]
  /\ outbox' = outbox \cup {[chat |-> chat, cid |-> cid]}
  /\ UNCHANGED <<serverVars, axiosVars>>

\* the message:send of the browser reaches the server
SendArrives(o) ==
  /\ o \in outbox
  /\ outbox' = outbox \ {o}
  /\ SendCreate(Me, o.chat, o.cid)
  /\ UNCHANGED <<messages, made, axiosVars>>

\* the chat is opened: setMessages with the answer of GET /chats/:id/messages
LoadMessages(chat) ==
  /\ messages' = [messages EXCEPT ![chat] =
       LET ids == {m \in DOMAIN msgs : msgs[m].chat = chat}
           Nth[k \in 0..Len(msgs)] ==
             IF k = 0 THEN <<>>
             ELSE IF k \in ids THEN Append(Nth[k - 1], Entry(k, NoVal, msgs[k].status))
             ELSE Nth[k - 1]
       IN Nth[Len(msgs)]]
  /\ UNCHANGED <<serverVars, outbox, made, axiosVars>>

NextStore ==
  \/ \E cid \in OwnIds : SendText("g", cid)
  \/ \E o \in outbox : SendArrives(o)
  \/ LoadMessages("g")
  \/ /\ \A m \in DOMAIN msgs : msgs[m].sender # SessUser["s3"]
     /\ SendCreate("s3", "g", OtherId) /\ UNCHANGED browserVars
  \/ \E t \in sendTasks : SendBroadcast(t) /\ Receive(emitted') /\ UNCHANGED <<outbox, made, axiosVars>>
  \/ \E t \in sendTasks : SendAbort(t) /\ UNCHANGED browserVars
  \/ \E m \in MsgIds : AckStart("s3", "read", m) /\ UNCHANGED browserVars
  \/ \E t \in ackTasks : AckSave(t) /\ UNCHANGED browserVars
  \/ \E t \in ackTasks : AckEmit(t) /\ Receive(emitted') /\ UNCHANGED <<outbox, made, axiosVars>>

SpecStore == InitOrder /\ [][NextStore]_vars

\* C26: no list of the chat store holds two entries with the same durable _id
StoreDuplicateFree ==
  \A chat \in Chats : \A i, j \in DOMAIN messages[chat] :
    (i # j /\ messages[chat][i].id # 0) => messages[chat][i].id # messages[chat][j].id

(***************************************************************************)
(* The axios layer of the browser.  A request the layer has let out is     *)
(* "sent" (on the wire, not aborted), "aborting" (given an AbortController *)
(* whose abort() is scheduled with setTimeout 0), "aborted" or "done".     *)
(***************************************************************************)
Request(n, config, state) == [n |-> n, config |-> config, state |-> state]

\* the request interceptor (lines 113-149): a GET /chats inside the throttle
\* window of its key, or with its key in flight, is sent with an abort
\* scheduled; any other GET /chats marks its key in flight
Intercept(config) ==
  /\ Cardinality(requests) < MaxReqs
  /\ LET n == Cardinality(requests) + 1
         key == makeKey(config)
     IN IF ~isChatsRequest(config)
          THEN /\ requests' = requests \cup {Request(n, config, "sent")}
               /\ UNCHANGED inFlight
        ELSE IF clock - lastSeen[key] < THROTTLE_MS
          THEN /\ requests' = requests \cup {Request(n, config, "aborting")}
               /\ UNCHANGED inFlight
        ELSE IF key \in inFlight
          THEN /\ requests' = requests \cup {Request(n, config, "aborting")}
               /\ UNCHANGED inFlight
        ELSE /\ requests' = requests \cup {Request(n, config, "sent")}
             /\ inFlight' = inFlight \cup {key}
  /\ UNCHANGED <<serverVars, storeVars, lastSeen, clock>>

\* finishChats (lines 157-162): the key leaves inFlight and its lastSeen is now
finishChats(config) ==
  IF isChatsRequest(config)
    THEN /\ inFlight' = inFlight \ {makeKey(config)}
         /\ lastSeen' = [lastSeen EXCEPT ![makeKey(config)] = clock]
    ELSE UNCHANGED <<inFlight, lastSeen>>

\* the scheduled abort() runs: the request is rejected with a cancel error
\* that carries its config, and the response interceptor's error branch
\* (lines 169-172) runs finishChats on it
Abort(r) ==
  /\ r \in requests /\ r.state = "aborting"
  /\ requests' = (requests \ {r}) \cup {[r EXCEPT !.state = "aborted"]}
  /\ finishChats(r.config)
  /\ UNCHANGED <<serverVars, storeVars, clock>>

\* the answer (or a network error) of a request on the wire arrives: either
\* branch of the response interceptor (lines 164-172) runs finishChats
Respond(r) ==
  /\ r \in requests /\ r.state = "sent"
  /\ requests' = (requests \ {r}) \cup {[r EXCEPT !.state = "done"]}
  /\ finishChats(r.config)
  /\ UNCHANGED <<serverVars, storeVars, clock>>

\* time passes: a whole throttle window, or a millisecond less
Tick(d) ==
  /\ clock + d <= MaxClock
  /\ clock' = clock + d
  /\ UNCHANGED <<serverVars, storeVars, inFlight, lastSeen, requests>>

NextAxios ==
  \/ \E config \in Configs : Intercept(config)
  \/ \E r \in requests : Abort(r)
  \/ \E r \in requests : Respond(r)
  \/ \E d \in {THROTTLE_MS - 1, THROTTLE_MS} : Tick(d)

SpecAxios == InitFresh /\ [][NextAxios]_vars

\* the GET /chats requests on the wire and not aborted
OnWire == {r \in requests : r.state = "sent" /\ isChatsRequest(r.config)}

\* C27: at most one GET /chats request of a key is on the wire and not
\* aborted; the key of such a request stays marked in flight until it
\* completes, whatever happens to duplicates; a GET /chats let out while a
\* request of its key is on the wire, or within the throttle window after one
\* finished, is aborted.
ChatsDeduped ==
  /\ [](\A r1, r2 \in OnWire : makeKey(r1.config) = makeKey(r2.config) => r1 = r2)
  /\ [](\A r \in OnWire : makeKey(r.config) \in inFlight)
  /\ [][\A config \in Configs :
          (/\ Intercept(config)
           /\ isChatsRequest(config)
           /\ \/ \E r \in OnWire : makeKey(r.config) = makeKey(config)
              \/ clock - lastSeen[makeKey(config)] < THROTTLE_MS)
            => \E r \in requests' \ requests : r.state = "aborting"]_vars


\* C28: every session id the registry holds is the id of a connection that is
\* still open
NoStaleSession ==
  \A u \in DOMAIN onlineUsers : \A s \in onlineUsers[u] : sock[s] = "connected"


(***************************************************************************)
(* Two devices: u1 is connected on s1 and s2, u2 on s3.  s2 takes no part  *)
(* in calls: it starts none and accepts none.  Calls are started, joined   *)
(* and left from s1 and s3 while any session disconnects.                  *)
(***************************************************************************)
Bystander == "s2"
Callers == {"s1", "s3"}

InitDevices == InitConnectedExcept("s4") /\ InitEmpty

NextDevices ==
  \/ \E s \in Callers, chat \in Chats : CallStart(s, chat) /\ UNCHANGED browserVars
  \/ \E s \in Callers, c \in CallIds : CallAccept(s, c) /\ UNCHANGED browserVars
  \/ \E s \in Callers, c \in CallIds : CallLeave(s, c) /\ UNCHANGED browserVars
  \/ \E s \in Sids : Disconnect(s) /\ UNCHANGED browserVars
  \/ \E s \in Sids : DisconnectResume(s) /\ UNCHANGED browserVars

SpecDevices == InitDevices /\ [][NextDevices]_vars

Forbidden(u, chat) ==
  \/ IsGroup(chat) /\ onlyAdmins /\ u \notin Admins(chat)
  \/ ~IsGroup(chat) /\ BlockBetween(u, chat)

\* C30: by message:send and by message:forward alike, no step stores a
\* message whose sender the rules of its chat forbid, and no message:new is
\* emitted for such a message.
SendRulesEverywhere ==
  [][/\ \A m \in DOMAIN msgs' \ DOMAIN msgs : ~Forbidden(msgs'[m].sender, msgs'[m].chat)
     /\ \A e \in emitted' :
          e.ev = "message:new" => ~Forbidden(msgs'[e.id].sender, msgs'[e.id].chat)]_vars

=============================================================================
